---- MODULE Spec2Model ----
(***************************************************************************)
(* A state-machine model of the physics core of the two-line stunt kite    *)
(* simulator: the wind field and the tether inputs and line tension        *)
(* (physics/physics-wind.js), the rigid-body state of the kite (kite.js)   *)
(* and the fixed-step stepper (physics/engine.js).                         *)
(*                                                                         *)
(* Numbers.  The program computes with IEEE-754 doubles.  A number is      *)
(* modelled as a record [k, v]: k = "num" with v the value in units of     *)
(* 1/10000 (fixed point, scale S), or one of the three non-finite doubles  *)
(* NaN, +Infinity, -Infinity.  Products and quotients of finite values are *)
(* rounded to the nearest unit, symmetrically in the sign, as the rounding *)
(* of doubles is.  The sign of zero is not modelled.                       *)
(***************************************************************************)
EXTENDS Integers, Sequences, FiniteSets, TLC

VARIABLES
    windState,      \* physics-wind.js: windState
    tetherConfig,   \* physics-wind.js: tetherConfig
    kiteProperties, \* kite.js: kiteProperties (with the smoothing accumulators)
    config,         \* engine.js: config
    isRunning,      \* engine.js: isRunning
    accumulator,    \* engine.js: accumulator, seconds in units of 1/S
    obs             \* observations of the last operation (history, not program state)

vars == <<windState, tetherConfig, kiteProperties, config, isRunning, accumulator, obs>>

----------------------------------------------------------------------------
(* Extended fixed-point numbers *)

\* Statements run in sequence: Bind(v, F) is F applied to the value of v, with v
\* evaluated before F is entered
Bind(v, F(_)) == CHOOSE r \in {F(x) : x \in {v}} : TRUE

S == 100 * 100

Num(n) == [k |-> "num", v |-> n]
NaN == [k |-> "nan", v |-> 0]
PInf == [k |-> "inf", v |-> 1]
NInf == [k |-> "inf", v |-> -1]
Zero == Num(0)
One == Num(S)

IsNum(a) == a.k = "num"
isNaN(a) == a.k = "nan"
IsInf(a) == a.k = "inf"
isFinite(a) == a.k = "num"

Abs(n) == IF n < 0 THEN -n ELSE n
Sgn(n) == IF n < 0 THEN -1 ELSE IF n > 0 THEN 1 ELSE 0

\* the sign of an extended number that is not NaN
Sign(a) == IF IsInf(a) THEN a.v ELSE Sgn(a.v)
Inf(s) == IF s < 0 THEN NInf ELSE PInf

\* n / d rounded to the nearest integer, symmetric in the sign (d > 0)
RoundDiv(n, d) == Sgn(n) * ((2 * Abs(n) + d) \div (2 * d))

\* (a * b) / S for integers, rounded to nearest, without forming a * b
MulInt(a, b) ==
    LET s == Sgn(a) * Sgn(b)
        x == Abs(a)
        y == Abs(b)
        xh == x \div S
        xl == x % S
        yh == y \div S
        yl == y % S
    IN s * (xh * yh * S + xh * yl + xl * yh + ((2 * xl * yl + S) \div (2 * S)))

Neg(a) ==
    IF isNaN(a) THEN NaN
    ELSE IF IsInf(a) THEN Inf(-a.v)
    ELSE Num(-a.v)

Add(a, b) ==
    IF isNaN(a) \/ isNaN(b) THEN NaN
    ELSE IF IsInf(a) /\ IsInf(b) THEN (IF a.v = b.v THEN a ELSE NaN)
    ELSE IF IsInf(a) THEN a
    ELSE IF IsInf(b) THEN b
    ELSE Num(a.v + b.v)

Sub(a, b) == Add(a, Neg(b))

Mul(a, b) ==
    IF isNaN(a) \/ isNaN(b) THEN NaN
    ELSE IF IsInf(a) \/ IsInf(b)
         THEN (IF Sign(a) = 0 \/ Sign(b) = 0 THEN NaN ELSE Inf(Sign(a) * Sign(b)))
    ELSE Num(MulInt(a.v, b.v))

\* the first four digits after the point of r / b (0 <= r < b) as an integer,
\* rounded to nearest on the digit that follows
QuoDigits(r, b) ==
    LET r1 == (r * 10) % b
        r2 == (r1 * 10) % b
        r3 == (r2 * 10) % b
        r4 == (r3 * 10) % b
    IN ((r * 10) \div b) * 1000 + ((r1 * 10) \div b) * 100
       + ((r2 * 10) \div b) * 10 + ((r3 * 10) \div b)
       + (IF 2 * r4 >= b THEN 1 ELSE 0)

\* (a * S) / b for integers, b > 0, rounded to nearest, without forming a * S
DivInt(a, b) == Sgn(a) * ((Abs(a) \div b) * S + QuoDigits(Abs(a) % b, b))

Div(a, b) ==
    IF isNaN(a) \/ isNaN(b) THEN NaN
    ELSE IF IsInf(a) /\ IsInf(b) THEN NaN
    ELSE IF IsInf(a) THEN Inf(a.v * (IF Sign(b) < 0 THEN -1 ELSE 1))
    ELSE IF IsInf(b) THEN Zero
    ELSE IF b.v = 0 THEN (IF a.v = 0 THEN NaN ELSE Inf(Sgn(a.v)))
    ELSE Num(Sgn(b.v) * DivInt(a.v, Abs(b.v)))

\* comparisons of doubles: every comparison with NaN is false
Lt(a, b) ==
    IF isNaN(a) \/ isNaN(b) THEN FALSE
    ELSE IF IsInf(a) /\ IsInf(b) THEN a.v < b.v
    ELSE IF IsInf(a) THEN a.v < 0
    ELSE IF IsInf(b) THEN b.v > 0
    ELSE a.v < b.v

Gt(a, b) == Lt(b, a)
Le(a, b) == ~isNaN(a) /\ ~isNaN(b) /\ ~Lt(b, a)
Ge(a, b) == Le(b, a)

\* Math.max and Math.min: NaN when an argument is NaN
MathMax(a, b) == IF isNaN(a) \/ isNaN(b) THEN NaN ELSE IF Lt(a, b) THEN b ELSE a
MathMin(a, b) == IF isNaN(a) \/ isNaN(b) THEN NaN ELSE IF Lt(b, a) THEN b ELSE a

\* the largest element of a finite non-empty set of integers
SetMax(T) == CHOOSE m \in T : \A e \in T : e <= m

\* r with its next hexadecimal digit, of weight b, set as high as the square
\* still fits under n
SqrtDigit(n, r, b) ==
    SetMax({x \in {r + d * b : d \in 0..15} : x <= 46340 /\ x * x <= n})

\* the largest r with r * r <= n, for a natural n, one hexadecimal digit at a time
Isqrt(n) == SqrtDigit(n, SqrtDigit(n, SqrtDigit(n, SqrtDigit(n, 0, 4096), 256), 16), 1)

\* Math.sqrt
MathSqrt(a) ==
    IF isNaN(a) THEN NaN
    ELSE IF IsInf(a) THEN (IF a.v > 0 THEN PInf ELSE NaN)
    ELSE IF a.v < 0 THEN NaN
    ELSE IF a.v < 200000 THEN Num(Isqrt(a.v * S))
    ELSE IF a.v < 20000000 THEN Num(10 * Isqrt(a.v * 100))
    ELSE Num(100 * Isqrt(a.v))

\* pi, in units of 1/S
PiUnits == 31416

\* the sine of x (units of 1/S, |x| <= pi/2) by its Taylor polynomial of degree 9
SinTaylor(x) ==
    LET x2 == MulInt(x, x)
        x3 == MulInt(x2, x)
        x5 == MulInt(x3, x2)
        x7 == MulInt(x5, x2)
        x9 == MulInt(x7, x2)
    IN x - RoundDiv(x3, 6) + RoundDiv(x5, 120) - RoundDiv(x7, 5040) + RoundDiv(x9, 362880)

\* the sine of any finite x: x is first reduced to [-pi, pi], then folded to
\* [-pi/2, pi/2]
SinInt(x) ==
    LET m == x % (2 * PiUnits)
        r == IF m > PiUnits THEN m - 2 * PiUnits ELSE m
        f == IF 2 * r > PiUnits THEN PiUnits - r
             ELSE IF 2 * r < -PiUnits THEN -PiUnits - r
             ELSE r
    IN SinTaylor(f)

\* Math.sin, Math.cos
MathSin(a) == IF isFinite(a) THEN Num(SinInt(a.v)) ELSE NaN
MathCos(a) == IF isFinite(a) THEN Num(SinInt(a.v + PiUnits \div 2)) ELSE NaN

\* the cosine of x (units of 1/S)
CosInt(x) == SinInt(x + PiUnits \div 2)

\* the last point of lo, lo + w, ..., lo + 15 w whose cosine is still at least c:
\* the cosine decreases on [0, pi], and CosInt(lo) >= c
AcosDigit(c, lo, w) ==
    SetMax({x \in {lo + d * w : d \in 0..15} : x = lo \/ (x <= PiUnits /\ CosInt(x) >= c)})

\* the angle of [0, pi] whose cosine is c (-S <= c < S), to the nearer of the
\* two neighbours that bracket it
AcosIter(c) ==
    Bind(AcosDigit(c, AcosDigit(c, AcosDigit(c, AcosDigit(c, 0, 4096), 256), 16), 1), LAMBDA lo :
    IF CosInt(lo) - c <= c - CosInt(lo + 1) THEN lo ELSE lo + 1)

\* Math.acos: NaN outside [-1, 1]
MathAcos(a) ==
    IF ~isFinite(a) \/ a.v > S \/ a.v < -S THEN NaN
    ELSE IF a.v = S THEN Zero
    ELSE IF a.v = -S THEN Num(PiUnits)
    ELSE Num(AcosIter(a.v))

\* Math.pow(a, 0.8): 0.8 = 1/2 + 1/4 + 1/32 + 1/64 + 1/512 + 1/1024 + ..., so the
\* power is the product of the iterated square roots r1 r2 r5 r6 r9 r10 of a,
\* the later factors being 1 within the resolution
MathPow08(a) ==
    IF isNaN(a) THEN NaN
    ELSE IF IsInf(a) THEN (IF a.v > 0 THEN PInf ELSE NaN)
    ELSE IF a.v < 0 THEN NaN
    ELSE IF a.v = 0 THEN Zero
    ELSE Bind(MathSqrt(a), LAMBDA r1 :
         Bind(MathSqrt(r1), LAMBDA r2 :
         Bind(MathSqrt(MathSqrt(MathSqrt(r2))), LAMBDA r5 :
         Bind(MathSqrt(r5), LAMBDA r6 :
         Bind(MathSqrt(MathSqrt(MathSqrt(r6))), LAMBDA r9 :
         Bind(MathSqrt(r9), LAMBDA r10 :
         Mul(Mul(Mul(Mul(Mul(r1, r2), r5), r6), r9), r10)))))))

----------------------------------------------------------------------------
(* Vectors {x, y, z} *)

Vec(x, y, z) == [x |-> x, y |-> y, z |-> z]
VecN(x, y, z) == Vec(Num(x), Num(y), Num(z))
ZeroVec == VecN(0, 0, 0)

VAdd(a, b) == Vec(Add(a.x, b.x), Add(a.y, b.y), Add(a.z, b.z))
VScale(a, s) == Vec(Mul(a.x, s), Mul(a.y, s), Mul(a.z, s))
VDivS(a, s) == Vec(Div(a.x, s), Div(a.y, s), Div(a.z, s))
MagSquared(a) == Add(Add(Mul(a.x, a.x), Mul(a.y, a.y)), Mul(a.z, a.z))
VSub(a, b) == Vec(Sub(a.x, b.x), Sub(a.y, b.y), Sub(a.z, b.z))
Dot(a, b) == Add(Add(Mul(a.x, b.x), Mul(a.y, b.y)), Mul(a.z, b.z))
Cross(a, b) ==
    Vec(Sub(Mul(a.y, b.z), Mul(a.z, b.y)),
        Sub(Mul(a.z, b.x), Mul(a.x, b.z)),
        Sub(Mul(a.x, b.y), Mul(a.y, b.x)))
VecIsNaN(a) == isNaN(a.x) \/ isNaN(a.y) \/ isNaN(a.z)
VecFinite(a) == isFinite(a.x) /\ isFinite(a.y) /\ isFinite(a.z)

----------------------------------------------------------------------------
(* Wind field: physics/physics-wind.js, the wind part *)

\* decimal literals of the source, in units of 1/S
Lit(units) == Num(units)

WindStateInit ==
    [ baseSpeed        |-> Lit(50000),
      baseDirection    |-> VecN(0, 0, S),
      currentSpeed     |-> Lit(50000),
      currentDirection |-> VecN(0, 0, S),
      gustStrength     |-> Lit(2000),
      gustFrequency    |-> Lit(2000),
      turbulence       |-> Lit(1000),
      userWindScale    |-> Lit(10000) ]

\* Math.sin(time * gustFrequency): the clock performance.now() is an input, so
\* the sine is any value sineOfClock of [-1, 1]; it is sin(0) = 0 when the
\* frequency is 0
GustSine(w, sineOfClock) == IF w.gustFrequency = Zero THEN Zero ELSE sineOfClock

\* a wind speed with no floor under it
speedUnfloored(speed) == speed

\* a wind speed capped at 0.1 where the floor should be
speedCapped(speed) == MathMin(Lit(1000), speed)

\* Math.max(0.1, speed): the floor of currentSpeed
speedFloored(speed) == MathMax(Lit(1000), speed)

\* updateWindVariation: sineOfClock stands for the clock, r1..r4 for the four
\* Math.random() draws, in the order the code makes them
updateWindVariation(w, sineOfClock, r1, r2, r3, r4) ==
    LET gustFactor == Mul(GustSine(w, sineOfClock), w.gustStrength)
        turbulenceFactor == Mul(Sub(r1, Lit(5000)), w.turbulence)
        variationFactor == Add(Add(One, gustFactor), turbulenceFactor)
        speed == speedFloored(Mul(Mul(w.baseSpeed, variationFactor), w.userWindScale))
        directionVariation == Mul(w.turbulence, Lit(1000))
        d == Vec(Add(w.baseDirection.x, Mul(Sub(r2, Lit(5000)), directionVariation)),
                 Add(w.baseDirection.y, Mul(Sub(r3, Lit(5000)), directionVariation)),
                 Add(w.baseDirection.z, Mul(Sub(r4, Lit(5000)), directionVariation)))
        mag == MathSqrt(MagSquared(d))
    IN [w EXCEPT !.currentSpeed = speed, !.currentDirection = VDivS(d, mag)]

\* updateWind: the variation; the arrow of updateWindVisualization is display only
updateWind(w, sineOfClock, r1, r2, r3, r4) == updateWindVariation(w, sineOfClock, r1, r2, r3, r4)

setWindSpeed(w, scale) ==
    [w EXCEPT !.userWindScale = MathMax(Zero, MathMin(One, scale))]

setWindDirection(w, x, y, z) ==
    LET v == Vec(x, y, z)
        mag == MathSqrt(MagSquared(v))
        base == IF Gt(mag, Zero) THEN VDivS(v, mag) ELSE v
    IN [w EXCEPT !.baseDirection = base, !.currentDirection = base]

\* setWindVariation: params is a record holding some of the three fields
setWindVariation(w, params) ==
    [w EXCEPT
       !.gustStrength = IF "gustStrength" \in DOMAIN params THEN params.gustStrength ELSE @,
       !.gustFrequency = IF "gustFrequency" \in DOMAIN params THEN params.gustFrequency ELSE @,
       !.turbulence = IF "turbulence" \in DOMAIN params THEN params.turbulence ELSE @]

getWindSpeed(w) == w.currentSpeed
getWindDirection(w) == w.currentDirection

----------------------------------------------------------------------------
(* Tether system: physics/physics-wind.js, the tether part *)

TetherConfigInit ==
    [ leftLineLength               |-> Lit(300000),
      rightLineLength              |-> Lit(300000),
      lineElasticity               |-> Lit(500),
      operatorPosition             |-> VecN(0, 0, -100000),
      leftInput                    |-> Lit(5000),
      rightInput                   |-> Lit(5000),
      overallLengthAdjustment      |-> Zero,
      differentialLengthAdjustment |-> Zero ]

leftAttachPoint == VecN(-5000, 0, 0)
rightAttachPoint == VecN(5000, 0, 0)

setLeftInput(t, input) == [t EXCEPT !.leftInput = MathMax(Zero, MathMin(One, input))]
setRightInput(t, input) == [t EXCEPT !.rightInput = MathMax(Zero, MathMin(One, input))]
setOverallLineLength(t, adjustment) ==
    [t EXCEPT !.overallLengthAdjustment = MathMax(Neg(One), MathMin(One, adjustment))]
setDifferentialLineLength(t, adjustment) ==
    [t EXCEPT !.differentialLengthAdjustment = MathMax(Neg(One), MathMin(One, adjustment))]

updateEffectiveLineLengths(t) ==
    LET baseLengthFactor == Add(One, Mul(t.overallLengthAdjustment, Lit(5000)))
        baseLength == Mul(Lit(300000), baseLengthFactor)
        diffFactor == Mul(t.differentialLengthAdjustment, Lit(2000))
    IN [t EXCEPT !.leftLineLength = Mul(baseLength, Sub(One, diffFactor)),
                 !.rightLineLength = Mul(baseLength, Add(One, diffFactor))]

calculateDistance(point1, point2) ==
    LET dx == Sub(point2.x, point1.x)
        dy == Sub(point2.y, point1.y)
        dz == Sub(point2.z, point1.z)
    IN MathSqrt(Add(Add(Mul(dx, dx), Mul(dy, dy)), Mul(dz, dz)))

\* the effective length of a line under a control input
EffectiveLength(lineLength, input) == Mul(lineLength, Sub(One, Mul(input, Lit(3000))))

\* the tension of a line that pushes when it is slack: the strain is not
\* clamped at zero
calculateLineTensionPushing(t, distance, lineLength, input) ==
    LET effectiveLength == EffectiveLength(lineLength, input)
        strain == Sub(Div(distance, effectiveLength), One)
    IN Mul(Mul(t.lineElasticity, strain), Add(One, strain))

calculateLineTension(t, distance, lineLength, input) ==
    LET effectiveLength == EffectiveLength(lineLength, input)
        strain == MathMax(Zero, Sub(Div(distance, effectiveLength), One))
    IN Mul(Mul(t.lineElasticity, strain), Add(One, strain))

\* the hands of the operator, 1 m apart at 1 m height
operatorLeft(t) == VAdd(t.operatorPosition, VecN(-5000, S, 0))
operatorRight(t) == VAdd(t.operatorPosition, VecN(5000, S, 0))

groundProximityFactor(bridleY) ==
    MathMax(One, Mul(Lit(20000), Sub(One, MathMin(One, Div(bridleY, Lit(50000))))))

\* calculateTetherForces, for the kite k (kiteProperties) and the tether state t
calculateTetherForces(k, t) ==
    LET bridleConnection == VAdd(k.position, k.bridle.connectionPoint)
        leftAttach == VAdd(k.position, leftAttachPoint)
        rightAttach == VAdd(k.position, rightAttachPoint)
        factor == groundProximityFactor(bridleConnection.y)
    IN Bind(calculateDistance(leftAttach, operatorLeft(t)), LAMBDA leftDistance :
       Bind(calculateDistance(rightAttach, operatorRight(t)), LAMBDA rightDistance :
       [ leftTension   |-> Mul(calculateLineTension(t, leftDistance, t.leftLineLength, t.leftInput), factor),
         rightTension  |-> Mul(calculateLineTension(t, rightDistance, t.rightLineLength, t.rightInput), factor),
         leftDistance  |-> leftDistance,
         rightDistance |-> rightDistance ]))

\* updateTethers: the line lengths; the tensions are computed and dropped, the
\* line geometry is display only
updateTethers(t) == updateEffectiveLineLengths(t)

----------------------------------------------------------------------------
(* Rigid-body state of the kite: kite.js *)

\* the launch pose of loadKiteModel and resetKite: 30 m of line at 30 degrees
\* of elevation in front of the pilot at (0, 0, -10)
tetherLength == Lit(300000)
elevationAngle == Num(RoundDiv(PiUnits, 6))
LaunchPosition ==
    Vec(Zero,
        Mul(MathSin(elevationAngle), tetherLength),
        Sub(Lit(-100000), Mul(MathCos(elevationAngle), tetherLength)))
LaunchRotation == Vec(Neg(Sub(Num(RoundDiv(PiUnits, 2)), elevationAngle)), Zero, Zero)

\* kiteProperties as the module creates it and loadKiteModel leaves it: the
\* position is the launch position, the rotation is still zero.  The smoothing
\* accumulators, created on first use as zero, are zero from the start.
KitePropertiesInit ==
    [ mass                        |-> Lit(5000),
      area                        |-> Lit(12000),
      dragCoefficient             |-> Lit(8000),
      position                    |-> LaunchPosition,
      velocity                    |-> ZeroVec,
      rotation                    |-> ZeroVec,
      angularVelocity             |-> ZeroVec,
      momentOfInertia             |-> VecN(1000, 2000, 1500),
      bridle                      |-> [connectionPoint |-> VecN(0, 0, 5000)],
      smoothedAcceleration        |-> ZeroVec,
      smoothedAngularAcceleration |-> ZeroVec ]

\* the kite types of changeKiteType: mass, area, drag coefficient
kiteTypes ==
    [ standard  |-> [mass |-> Lit(5000), area |-> Lit(12000), dragCoefficient |-> Lit(8000)],
      delta     |-> [mass |-> Lit(4000), area |-> Lit(10000), dragCoefficient |-> Lit(7000)],
      precision |-> [mass |-> Lit(6000), area |-> Lit(15000), dragCoefficient |-> Lit(9000)] ]

changeKiteType(k, kiteType) ==
    IF kiteType \notin DOMAIN kiteTypes THEN k
    ELSE [k EXCEPT !.mass = kiteTypes[kiteType].mass,
                   !.area = kiteTypes[kiteType].area,
                   !.dragCoefficient = kiteTypes[kiteType].dragCoefficient]

\* a reset that puts the kite back at the launch position without stopping it
resetKiteMoving(k) ==
    [k EXCEPT !.position = LaunchPosition,
              !.rotation = LaunchRotation]

\* resetKite: four new objects; the smoothing accumulators are not assigned
resetKite(k) ==
    [k EXCEPT !.position = LaunchPosition,
              !.velocity = ZeroVec,
              !.rotation = LaunchRotation,
              !.angularVelocity = ZeroVec]

\* a limit that is never applied
ClampMagnitudeOff(v, max) == v

\* a vector whose magnitude exceeds max, scaled back to max
ClampMagnitude(v, max) ==
    Bind(MagSquared(v), LAMBDA magSquared :
    IF Gt(magSquared, Mul(max, max))
    THEN VScale(v, Div(max, MathSqrt(magSquared)))
    ELSE v)

\* exponential smoothing of the raw acceleration into the accumulator
Smooth(alpha, raw, smoothed) ==
    Vec(Add(Mul(alpha, raw.x), Mul(Sub(One, alpha), smoothed.x)),
        Add(Mul(alpha, raw.y), Mul(Sub(One, alpha), smoothed.y)),
        Add(Mul(alpha, raw.z), Mul(Sub(One, alpha), smoothed.z)))

\* applyForce up to the validation of the position: the state the integration
\* leaves in kiteProperties
IntegrateForce(k, force) ==
    Bind(VDivS(force, k.mass), LAMBDA rawAcceleration :
    Bind(Smooth(Lit(1500), rawAcceleration, k.smoothedAcceleration), LAMBDA smoothed :
    Bind(VScale(VAdd(k.velocity, smoothed), Sub(One, Lit(500))), LAMBDA damped :
    Bind(ClampMagnitude(damped, Lit(50000)), LAMBDA velocity :
    [k EXCEPT !.smoothedAcceleration = smoothed,
              !.velocity = velocity,
              !.position = VAdd(k.position, velocity)]))))

\* applyForce.  The result holds the new kiteProperties (k), whether the force
\* was rejected (skipped), whether resetKite ran (reset), and the state that the
\* integration left before the validation (integrated): after a reset these are
\* the values the replaced objects keep.
\* applyForce without the validation of the position at its end
applyForceUnvalidated(k, force) ==
    IF VecIsNaN(force)
    THEN [k |-> k, skipped |-> TRUE, reset |-> FALSE, integrated |-> k]
    ELSE Bind(IntegrateForce(k, force), LAMBDA i :
         [k |-> i, skipped |-> FALSE, reset |-> FALSE, integrated |-> i])

\* applyForce without the test of its argument
applyForceUnguarded(k, force) ==
    Bind(IntegrateForce(k, force), LAMBDA i :
    IF VecIsNaN(i.position)
    THEN [k |-> resetKite(i), skipped |-> FALSE, reset |-> TRUE, integrated |-> i]
    ELSE [k |-> i, skipped |-> FALSE, reset |-> FALSE, integrated |-> i])

applyForce(k, force) ==
    IF VecIsNaN(force)
    THEN [k |-> k, skipped |-> TRUE, reset |-> FALSE, integrated |-> k]
    ELSE Bind(IntegrateForce(k, force), LAMBDA i :
         IF VecIsNaN(i.position)
         THEN [k |-> resetKite(i), skipped |-> FALSE, reset |-> TRUE, integrated |-> i]
         ELSE [k |-> i, skipped |-> FALSE, reset |-> FALSE, integrated |-> i])

\* applyTorque up to the validation of the rotation
IntegrateTorque(k, torque) ==
    Bind(Vec(Div(torque.x, k.momentOfInertia.x),
             Div(torque.y, k.momentOfInertia.y),
             Div(torque.z, k.momentOfInertia.z)), LAMBDA rawAngularAcceleration :
    Bind(Smooth(Lit(1000), rawAngularAcceleration, k.smoothedAngularAcceleration), LAMBDA smoothed :
    Bind(VScale(VAdd(k.angularVelocity, smoothed), Sub(One, Lit(800))), LAMBDA damped :
    Bind(ClampMagnitude(damped, Lit(20000)), LAMBDA angularVelocity :
    [k EXCEPT !.smoothedAngularAcceleration = smoothed,
              !.angularVelocity = angularVelocity,
              !.rotation = VAdd(k.rotation, angularVelocity)]))))

applyTorque(k, torque) ==
    IF VecIsNaN(torque)
    THEN [k |-> k, skipped |-> TRUE, reset |-> FALSE, integrated |-> k]
    ELSE Bind(IntegrateTorque(k, torque), LAMBDA i :
         IF VecIsNaN(i.rotation)
         THEN [k |-> resetKite(i), skipped |-> FALSE, reset |-> TRUE, integrated |-> i]
         ELSE [k |-> i, skipped |-> FALSE, reset |-> FALSE, integrated |-> i])

\* getKitePosition, getKiteRotation, getKiteVelocity: copies of the vectors
getKitePosition(k) == k.position
getKiteRotation(k) == k.rotation
getKiteVelocity(k) == k.velocity

----------------------------------------------------------------------------
(* Tether force on the kite: physics/physics-wind.js, getTetherForces *)

\* a direction vector divided by its magnitude when that exceeds 0.0001, and
\* otherwise the given default
NormalizeOr(dir, default) ==
    LET mag == MathSqrt(MagSquared(dir))
    IN IF Gt(mag, Lit(1)) THEN VDivS(dir, mag) ELSE default

scaleTension(tension) == Mul(MathPow08(tension), Lit(50000))

getTetherForces(k, t) ==
    IF VecIsNaN(k.position) THEN ZeroVec
    ELSE
    Bind(calculateTetherForces(k, t), LAMBDA tensions :
    Bind(VAdd(k.position, k.bridle.connectionPoint), LAMBDA bridleConnection :
    Bind(NormalizeOr(VSub(operatorLeft(t), bridleConnection), VecN(0, S, 0)), LAMBDA leftDir :
    Bind(NormalizeOr(VSub(operatorRight(t), bridleConnection), VecN(0, S, 0)), LAMBDA rightDir :
    Bind(VAdd(VScale(leftDir, scaleTension(tensions.leftTension)),
              VScale(rightDir, scaleTension(tensions.rightTension))), LAMBDA totalForce :
    IF VecIsNaN(totalForce) THEN ZeroVec
    ELSE VSub(ClampMagnitude(totalForce, Lit(200000)), VScale(k.velocity, Lit(8000))))))))

----------------------------------------------------------------------------
(* Physics engine: physics/engine.js *)

GRAVITY == Lit(98100)
AIR_DENSITY == Lit(12250)
FIXED_TIME_STEP == Div(One, Lit(1200000))
maxSteps == 10
maxDeltaTime == Lit(1000)

ConfigInit ==
    [ timeScale               |-> One,
      simulationStepsPerFrame |-> 1,
      enableGravity           |-> TRUE,
      enableWind              |-> TRUE,
      enableDrag              |-> TRUE,
      enableCollisions        |-> TRUE ]

\* updatePhysicsConfig: newConfig is a record holding some of the fields
updatePhysicsConfig(c, newConfig) ==
    [f \in DOMAIN c |-> IF f \in DOMAIN newConfig THEN newConfig[f] ELSE c[f]]

\* The object `kite` that stepPhysics obtains from getKiteProperties() is a
\* shallow copy: its position, velocity, rotation and angularVelocity are the
\* very objects of kiteProperties until resetKite replaces those by new ones.
\* A frame fr of a sub-step holds kiteProperties (k), whether `kite` still
\* shares the four objects (aliased), and, once it does not, the values of the
\* replaced objects that `kite` keeps (view).
FourOf(k) ==
    [ position        |-> k.position,
      velocity        |-> k.velocity,
      rotation        |-> k.rotation,
      angularVelocity |-> k.angularVelocity ]

\* a copy that shares nothing with kiteProperties
getKitePropertiesDeep(k) == [k |-> k, aliased |-> FALSE, view |-> FourOf(k)]

getKiteProperties(k) == [k |-> k, aliased |-> TRUE, view |-> FourOf(k)]

\* what reading through `kite` gives
KiteRef(fr) ==
    IF fr.aliased THEN fr.k
    ELSE [fr.k EXCEPT !.position = fr.view.position,
                      !.velocity = fr.view.velocity,
                      !.rotation = fr.view.rotation,
                      !.angularVelocity = fr.view.angularVelocity]

\* the frame after applyForce or applyTorque returned res
AfterApply(fr, res) ==
    IF res.reset /\ fr.aliased
    THEN [k |-> res.k, aliased |-> FALSE, view |-> FourOf(res.integrated)]
    ELSE [fr EXCEPT !.k = res.k]

calculateStabilizingForce(kite) ==
    Bind(Add(Mul(kite.position.x, kite.position.x), Mul(kite.position.z, kite.position.z)),
         LAMBDA horizontalDistanceSquared :
    LET verticalDistance == Sub(Lit(50000), kite.position.y)
        horizontalDistance == MathSqrt(horizontalDistanceSquared)
        far == Gt(horizontalDistanceSquared, Lit(9000000))
    IN Vec(IF far THEN Mul(Div(Neg(kite.position.x), horizontalDistance), Lit(500)) ELSE Zero,
           Mul(verticalDistance, Lit(100)),
           IF far THEN Mul(Div(Neg(kite.position.z), horizontalDistance), Lit(500)) ELSE Zero))

\* the lift coefficient at an angle of attack
LiftCoefficient(angleOfAttack) ==
    LET optimalAoA == Lit(2600)
        maxLiftCoef == Lit(12000)
        quarterPi == Div(Num(PiUnits), Lit(40000))
    IN Bind(Mul(optimalAoA, Lit(13000)), LAMBDA stallAngle :
       Bind(Mul(maxLiftCoef,
                MathSin(Div(Mul(Mul(Lit(20000), angleOfAttack), quarterPi), optimalAoA))), LAMBDA liftCoef :
       Bind(Sub(One, MathMin(One, Div(Sub(angleOfAttack, stallAngle),
                                      Sub(Div(Num(PiUnits), Lit(20000)), stallAngle)))), LAMBDA stallFactor :
       IF Gt(angleOfAttack, stallAngle) THEN Mul(liftCoef, stallFactor) ELSE liftCoef)))

calculateAerodynamicForces(kite, w) ==
    Bind(VSub(VScale(getWindDirection(w), getWindSpeed(w)), kite.velocity), LAMBDA relativeVelocity :
    Bind(MagSquared(relativeVelocity), LAMBDA velocityMagSquared :
    Bind(MathSqrt(velocityMagSquared), LAMBDA velocityMag :
    IF Lt(velocityMag, Lit(1))
    THEN [lift |-> ZeroVec, drag |-> ZeroVec]
    ELSE
    Bind(VDivS(relativeVelocity, velocityMag), LAMBDA relVelNorm :
    Bind(Vec(Mul(MathSin(kite.rotation.y), MathCos(kite.rotation.x)),
             MathSin(kite.rotation.x),
             Mul(MathCos(kite.rotation.y), MathCos(kite.rotation.x))), LAMBDA kiteNormal :
    Bind(MathMax(Neg(One), MathMin(One, Dot(relVelNorm, kiteNormal))), LAMBDA clampedDot :
    Bind(MathAcos(clampedDot), LAMBDA angleOfAttack :
    Bind(LiftCoefficient(angleOfAttack), LAMBDA liftCoef :
    Bind(Add(Lit(500), Mul(kite.dragCoefficient, MathSin(angleOfAttack))), LAMBDA dragCoef :
    Bind(Cross(relVelNorm, kiteNormal), LAMBDA crossProduct :
    Bind(MathSqrt(MagSquared(crossProduct)), LAMBDA crossMag :
    Bind(IF Lt(crossMag, Lit(1)) THEN VecN(0, S, 0)
         ELSE Cross(relVelNorm, VDivS(crossProduct, crossMag)), LAMBDA liftDirection :
    Bind(Mul(Mul(Mul(Lit(5000), AIR_DENSITY), velocityMagSquared), kite.area), LAMBDA forceFactor :
    [lift |-> VScale(liftDirection, Mul(forceFactor, liftCoef)),
     drag |-> VScale(Vec(Neg(relVelNorm.x), Neg(relVelNorm.y), Neg(relVelNorm.z)),
                     Mul(forceFactor, dragCoef))])))))))))))))

\* a direction vector divided by its magnitude when that exceeds 0.0001, and
\* otherwise left as it is
NormalizeIfLong(dir) ==
    LET mag == MathSqrt(MagSquared(dir))
    IN IF Gt(mag, Lit(1)) THEN VDivS(dir, mag) ELSE dir

\* the left and right tensions of calculateAndApplyTorque: both are half of
\* the x component of the net tether force
approximateTensions(tetherForceValues) ==
    [ leftTension  |-> Mul(tetherForceValues.x, Lit(5000)),
      rightTension |-> Mul(tetherForceValues.x, Lit(5000)) ]

\* the differential term added to torque.y
differentialTorque(leftTension, rightTension) ==
    LET tensionDifference == Sub(rightTension, leftTension)
        differentialTorqueFactor == Lit(5000)
    IN Mul(tensionDifference, differentialTorqueFactor)

\* the torque that calculateAndApplyTorque passes to applyTorque
TetherTorque(fr, t) ==
    Bind(getTetherForces(fr.k, t), LAMBDA tetherForceValues :
    LET kite == KiteRef(fr)
        bridleConnection == VAdd(kite.position, kite.bridle.connectionPoint)
        leftTension == approximateTensions(tetherForceValues).leftTension
        rightTension == approximateTensions(tetherForceValues).rightTension
        leftDir == NormalizeIfLong(VSub(operatorLeft(t), bridleConnection))
        rightDir == NormalizeIfLong(VSub(operatorRight(t), bridleConnection))
        bridleArm == kite.bridle.connectionPoint
        totalForce == VAdd(VScale(leftDir, leftTension), VScale(rightDir, rightTension))
        armTorque == Cross(bridleArm, totalForce)
        differential == Vec(Zero, differentialTorque(leftTension, rightTension), Zero)
        stabilizingTorque ==
            Vec(Mul(Neg(MathSin(kite.rotation.x)), Lit(1000)),
                Mul(Neg(MathSin(kite.rotation.y)), Lit(100)),
                Mul(Neg(MathSin(kite.rotation.z)), Lit(2000)))
        dampingTorque ==
            Vec(Mul(Neg(kite.angularVelocity.x), Lit(1500)),
                Mul(Neg(kite.angularVelocity.y), Lit(1500)),
                Mul(Neg(kite.angularVelocity.z), Lit(1500)))
    IN VScale(VAdd(VAdd(VAdd(armTorque, differential), stabilizingTorque), dampingTorque),
              Lit(3000)))

calculateAndApplyTorque(fr, t) ==
    Bind(TetherTorque(fr, t), LAMBDA totalTorque : AfterApply(fr, applyTorque(fr.k, totalTorque)))

groundBuffer == Lit(5000)

\* a write through `kite` to one of its four vectors
WriteRef(fr, field, value) ==
    IF fr.aliased THEN [fr EXCEPT !.k[field] = value] ELSE [fr EXCEPT !.view[field] = value]

checkGroundCollision(fr) ==
    IF Lt(KiteRef(fr).position.y, groundBuffer)
    THEN Bind(Vec(Zero, Mul(Mul(fr.k.mass, GRAVITY), Lit(20000)), Zero), LAMBDA groundRepulsionForce :
         Bind(AfterApply(fr, applyForce(fr.k, groundRepulsionForce)), LAMBDA f1 :
         Bind(KiteRef(f1).velocity, LAMBDA v1 :
         Bind(WriteRef(f1, "velocity",
                       Vec(Mul(v1.x, Lit(7000)), MathMax(Zero, v1.y), Mul(v1.z, Lit(7000)))), LAMBDA f2 :
         Bind(WriteRef(f2, "position", [KiteRef(f2).position EXCEPT !.y = groundBuffer]), LAMBDA f3 :
         Bind(KiteRef(f3).rotation, LAMBDA r3 :
         Bind(Vec(Mul(Neg(r3.x), Lit(5000)), Zero, Mul(Neg(r3.z), Lit(5000))), LAMBDA stabilizingTorque :
         AfterApply(f3, applyTorque(f3.k, stabilizingTorque)))))))))
    ELSE fr

\* the force that stepPhysics sums for the snapshot `kite`
TotalForce(k, c, w, t) ==
    LET gravity == IF c.enableGravity THEN Vec(Zero, Neg(Mul(k.mass, GRAVITY)), Zero) ELSE ZeroVec
    IN Bind(calculateAerodynamicForces(k, w), LAMBDA aeroForces :
       Bind(getTetherForces(k, t), LAMBDA tetherForces :
       Bind(calculateStabilizingForce(k), LAMBDA stabilizingForce :
       LET aero == IF c.enableWind THEN VAdd(aeroForces.lift, aeroForces.drag) ELSE ZeroVec
       IN VAdd(VAdd(VAdd(gravity, aero), tetherForces), stabilizingForce))))

\* stepPhysics(dt) up to the ground check: the summed force scaled by dt is
\* applied, then the torque
stepPhysicsForces(k, c, w, t, dt) ==
    Bind(TotalForce(k, c, w, t), LAMBDA totalForce :
    Bind(AfterApply(getKiteProperties(k), applyForce(k, VScale(totalForce, dt))), LAMBDA fr1 :
    calculateAndApplyTorque(fr1, t)))

\* stepPhysics(dt): the frame at the end of the sub-step
stepPhysicsFrame(k, c, w, t, dt) ==
    Bind(stepPhysicsForces(k, c, w, t, dt), LAMBDA fr2 :
    IF c.enableCollisions THEN checkGroundCollision(fr2) ELSE fr2)

\* stepPhysics(dt): kiteProperties at the end of the sub-step
stepPhysics(k, c, w, t, dt) == stepPhysicsFrame(k, c, w, t, dt).k

\* a loop body that forgets steps++
LoopBodyUncounted(ls) ==
    [ls EXCEPT !.k = stepPhysics(ls.k, ls.c, ls.w, ls.t, FIXED_TIME_STEP),
               !.accumulator = Sub(ls.accumulator, FIXED_TIME_STEP)]

\* a loop body that takes two fixed steps off the accumulator for one sub-step
LoopBodyTwiceTheTime(ls) ==
    [ls EXCEPT !.k = stepPhysics(ls.k, ls.c, ls.w, ls.t, FIXED_TIME_STEP),
               !.accumulator = Sub(Sub(ls.accumulator, FIXED_TIME_STEP), FIXED_TIME_STEP),
               !.steps = ls.steps + 1]

\* the state of the loop of updatePhysics: kiteProperties, the accumulator, the
\* count of sub-steps, and what the sub-steps read (config, windState,
\* tetherConfig)
LoopBody(ls) ==
    [ls EXCEPT !.k = stepPhysics(ls.k, ls.c, ls.w, ls.t, FIXED_TIME_STEP),
               !.accumulator = Sub(ls.accumulator, FIXED_TIME_STEP),
               !.steps = ls.steps + 1]

\* a loop that runs one sub-step more than maxSteps allows
RECURSIVE whileLoopOneMore(_)
whileLoopOneMore(ls) ==
    IF Ge(ls.accumulator, FIXED_TIME_STEP) /\ ls.steps <= maxSteps
    THEN Bind(LoopBody(ls), whileLoopOneMore)
    ELSE ls

\* while (accumulator >= FIXED_TIME_STEP && steps < maxSteps) { ... }
RECURSIVE whileLoop(_)
whileLoop(ls) ==
    IF Ge(ls.accumulator, FIXED_TIME_STEP) /\ ls.steps < maxSteps
    THEN Bind(LoopBody(ls), whileLoop)
    ELSE ls

\* updatePhysics without the test of isRunning
updatePhysicsAlways(running, acc, k, c, w, t, deltaTime) ==
    LET clampedDeltaTime == MathMin(deltaTime, maxDeltaTime)
        scaledDeltaTime == Mul(clampedDeltaTime, c.timeScale)
    IN Bind(whileLoop([k |-> k, accumulator |-> Add(acc, scaledDeltaTime), steps |-> 0,
                       c |-> c, w |-> w, t |-> t]), LAMBDA ls :
       [ k           |-> ls.k,
         accumulator |-> IF ls.steps >= maxSteps /\ Gt(ls.accumulator, FIXED_TIME_STEP)
                         THEN Zero ELSE ls.accumulator,
         steps       |-> ls.steps,
         banked      |-> ls.accumulator ])

\* updatePhysics(deltaTime): the new kiteProperties and accumulator, the count
\* of sub-steps run, and the accumulator as the loop left it (banked)
updatePhysics(running, acc, k, c, w, t, deltaTime) ==
    IF ~running
    THEN [k |-> k, accumulator |-> acc, steps |-> 0, banked |-> acc]
    ELSE LET clampedDeltaTime == MathMin(deltaTime, maxDeltaTime)
             scaledDeltaTime == Mul(clampedDeltaTime, c.timeScale)
         IN Bind(whileLoop([k |-> k, accumulator |-> Add(acc, scaledDeltaTime), steps |-> 0,
                            c |-> c, w |-> w, t |-> t]), LAMBDA ls :
            [ k           |-> ls.k,
              accumulator |-> IF ls.steps >= maxSteps /\ Gt(ls.accumulator, FIXED_TIME_STEP)
                              THEN Zero ELSE ls.accumulator,
              steps       |-> ls.steps,
              banked      |-> ls.accumulator ])

\* initPhysics, setPhysicsRunning
initPhysics == TRUE
setPhysicsRunning(shouldRun) == shouldRun

----------------------------------------------------------------------------
(* The stepper: main.js animate() calling the engine *)

\* the number of updatePhysics calls of a behaviour that find the engine running
MaxFrames == 2

\* the deltaTime arguments of updatePhysics: less than a step, ten steps and a
\* rest, a stall (clamped to 0.1 s), not a number
DeltaTimes == {Lit(50), Lit(835), Lit(5000), NaN}

\* the arguments of updatePhysicsConfig
ConfigUpdates == {[timeScale |-> Lit(20000)], [timeScale |-> Lit(5000)]}

\* what the last updatePhysics call found and did
Observed(op, frames, ran, before, deltaTime, steps, banked) ==
    [op |-> op, frames |-> frames, ran |-> ran, before |-> before, deltaTime |-> deltaTime,
     steps |-> steps, banked |-> banked]

Init ==
    /\ windState = WindStateInit
    /\ tetherConfig = TetherConfigInit
    /\ kiteProperties = KitePropertiesInit
    /\ config = ConfigInit
    /\ isRunning = FALSE
    /\ accumulator = Zero
    /\ obs = Observed("load", 0, FALSE, Zero, Zero, 0, Zero)

InitPhysics ==
    /\ isRunning' = initPhysics
    /\ UNCHANGED <<windState, tetherConfig, kiteProperties, config, accumulator, obs>>

SetPhysicsRunning ==
    \E shouldRun \in BOOLEAN :
        /\ isRunning' = setPhysicsRunning(shouldRun)
        /\ UNCHANGED <<windState, tetherConfig, kiteProperties, config, accumulator, obs>>

UpdatePhysicsConfig ==
    \E newConfig \in ConfigUpdates :
        /\ config' = updatePhysicsConfig(config, newConfig)
        /\ UNCHANGED <<windState, tetherConfig, kiteProperties, isRunning, accumulator, obs>>

UpdatePhysics ==
    \E deltaTime \in DeltaTimes :
        /\ isRunning => obs.frames < MaxFrames
        /\ \E r \in {updatePhysics(isRunning, accumulator, kiteProperties, config,
                                    windState, tetherConfig, deltaTime)} :
              /\ kiteProperties' = r.k
              /\ accumulator' = r.accumulator
              /\ obs' = Observed("updatePhysics", obs.frames + (IF isRunning THEN 1 ELSE 0),
                                 isRunning, accumulator,
                                 deltaTime, r.steps, r.banked)
        /\ UNCHANGED <<windState, tetherConfig, config, isRunning>>

Next == InitPhysics \/ SetPhysicsRunning \/ UpdatePhysicsConfig \/ UpdatePhysics

Spec == Init /\ [][Next]_vars

----------------------------------------------------------------------------
(* The wind field on its own: the controls and the frame loop calling the
   wind part of physics-wind.js *)

\* Math.sin of the clock at its extremes and at zero
GustSines == {Neg(One), Zero, One}

\* Math.random() is in [0, 1): the draw behind the speed, and the three draws
\* behind the direction
SpeedDraws == {Zero, Lit(9999)}
DirectionDraws ==
    { <<Lit(5000), Lit(5000), Lit(5000)>>,
      <<Zero, Zero, Zero>>,
      <<Zero, Lit(5000), Lit(9999)>> }

\* the arguments of setWindSpeed: the slider range, a value beyond it, not a number
WindScales == {Zero, Lit(5000), Lit(20000), NaN}

\* the arguments of setWindDirection
WindDirections == {<<Zero, Zero, Zero>>, <<Lit(30000), Lit(40000), Zero>>, <<Zero, Zero, Neg(One)>>}

\* the arguments of setWindVariation
WindVariations ==
    { [gustStrength |-> One],
      [gustStrength |-> Lit(9000), turbulence |-> Zero],
      [gustFrequency |-> Zero] }

InitWind ==
    /\ windState = WindStateInit
    /\ tetherConfig = TetherConfigInit
    /\ kiteProperties = KitePropertiesInit
    /\ config = ConfigInit
    /\ isRunning = FALSE
    /\ accumulator = Zero
    /\ obs = [op |-> "load"]

UpdateWind ==
    \E sineOfClock \in GustSines, r1 \in SpeedDraws, r \in DirectionDraws :
        /\ windState' = updateWind(windState, sineOfClock, r1, r[1], r[2], r[3])
        /\ obs' = [op |-> "updateWind"]
        /\ UNCHANGED <<tetherConfig, kiteProperties, config, isRunning, accumulator>>

SetWindSpeed ==
    \E scale \in WindScales :
        /\ windState' = setWindSpeed(windState, scale)
        /\ obs' = [op |-> "setWindSpeed"]
        /\ UNCHANGED <<tetherConfig, kiteProperties, config, isRunning, accumulator>>

SetWindDirection ==
    \E d \in WindDirections :
        /\ windState' = setWindDirection(windState, d[1], d[2], d[3])
        /\ obs' = [op |-> "setWindDirection"]
        /\ UNCHANGED <<tetherConfig, kiteProperties, config, isRunning, accumulator>>

SetWindVariation ==
    \E params \in WindVariations :
        /\ windState' = setWindVariation(windState, params)
        /\ obs' = [op |-> "setWindVariation"]
        /\ UNCHANGED <<tetherConfig, kiteProperties, config, isRunning, accumulator>>

NextWind == UpdateWind \/ SetWindSpeed \/ SetWindDirection \/ SetWindVariation

SpecWind == InitWind /\ [][NextWind]_vars

----------------------------------------------------------------------------
(* The tether controls on their own: controls.js calling the setters of
   physics-wind.js *)

\* the arguments of the four setters: inside the range, beyond it, not a number
TetherArgs == {Neg(One), Lit(-20000), Zero, Lit(5000), One, Lit(20000), PInf, NaN}

InitTether ==
    /\ windState = WindStateInit
    /\ tetherConfig = TetherConfigInit
    /\ kiteProperties = KitePropertiesInit
    /\ config = ConfigInit
    /\ isRunning = FALSE
    /\ accumulator = Zero
    /\ obs = [op |-> "load"]

SetLeftInput ==
    \E input \in TetherArgs :
        /\ tetherConfig' = setLeftInput(tetherConfig, input)
        /\ obs' = [op |-> "setLeftInput"]
        /\ UNCHANGED <<windState, kiteProperties, config, isRunning, accumulator>>

SetRightInput ==
    \E input \in TetherArgs :
        /\ tetherConfig' = setRightInput(tetherConfig, input)
        /\ obs' = [op |-> "setRightInput"]
        /\ UNCHANGED <<windState, kiteProperties, config, isRunning, accumulator>>

SetOverallLineLength ==
    \E adjustment \in TetherArgs :
        /\ tetherConfig' = setOverallLineLength(tetherConfig, adjustment)
        /\ obs' = [op |-> "setOverallLineLength"]
        /\ UNCHANGED <<windState, kiteProperties, config, isRunning, accumulator>>

SetDifferentialLineLength ==
    \E adjustment \in TetherArgs :
        /\ tetherConfig' = setDifferentialLineLength(tetherConfig, adjustment)
        /\ obs' = [op |-> "setDifferentialLineLength"]
        /\ UNCHANGED <<windState, kiteProperties, config, isRunning, accumulator>>

UpdateTethers ==
    /\ tetherConfig' = updateTethers(tetherConfig)
    /\ obs' = [op |-> "updateTethers"]
    /\ UNCHANGED <<windState, kiteProperties, config, isRunning, accumulator>>

NextTether ==
    \/ SetLeftInput \/ SetRightInput \/ SetOverallLineLength \/ SetDifferentialLineLength
    \/ UpdateTethers

SpecTether == InitTether /\ [][NextTether]_vars

----------------------------------------------------------------------------
(* Line tension as a function: calculateLineTension and calculateTetherForces
   of physics-wind.js applied to drawn line lengths, inputs, distances and
   kite positions *)

\* distances between a hand and an attach point: 0 m to 60 m in steps of 3 m
MaxDistance == 20
Distances == {Lit(30000 * n) : n \in 0..MaxDistance}
LineLengths == {Lit(150000), Lit(300000), Lit(450000)}
Inputs == {Zero, Lit(5000), One}

\* kite positions near the ground, at launch height and high up, near and far
KitePositions ==
    {VecN(x, y, z) : x \in {0, 50000},
                     y \in {2000, 20000, 150000, 400000},
                     z \in {-200000, -359800, -600000}}

\* tether states the controls reach: both lines at rest, the left line pulled
\* in, the right line pulled in, both lines let out
TetherStates ==
    { TetherConfigInit,
      setRightInput(setLeftInput(TetherConfigInit, One), Zero),
      setRightInput(setLeftInput(TetherConfigInit, Zero), One),
      updateTethers(setOverallLineLength(TetherConfigInit, One)) }

InitTension ==
    /\ windState = WindStateInit
    /\ config = ConfigInit
    /\ isRunning = FALSE
    /\ accumulator = Zero
    /\ \/ /\ tetherConfig = TetherConfigInit
          /\ kiteProperties = KitePropertiesInit
          /\ obs \in [op : {"distances"}, lineLength : LineLengths, input : Inputs,
                       distance : Distances, farther : Distances]
       \/ /\ tetherConfig \in TetherStates
          /\ \E position \in KitePositions :
                kiteProperties = [KitePropertiesInit EXCEPT !.position = position]
          /\ obs = [op |-> "position"]

CalculateLineTension ==
    /\ obs.op = "distances"
    /\ obs' = [ op        |-> "calculateLineTension",
                lineLength |-> obs.lineLength,
                input      |-> obs.input,
                distance   |-> obs.distance,
                farther    |-> obs.farther,
                tension    |-> calculateLineTension(tetherConfig, obs.distance,
                                                    obs.lineLength, obs.input),
                tensionFarther |-> calculateLineTension(tetherConfig, obs.farther,
                                                        obs.lineLength, obs.input) ]
    /\ UNCHANGED <<windState, tetherConfig, kiteProperties, config, isRunning, accumulator>>

CalculateTetherForces ==
    /\ obs.op = "position"
    /\ obs' = [ op     |-> "calculateTetherForces",
                forces |-> calculateTetherForces(kiteProperties, tetherConfig) ]
    /\ UNCHANGED <<windState, tetherConfig, kiteProperties, config, isRunning, accumulator>>

\* calculateAndApplyTorque(kite, tetherForces) for the kite at the drawn
\* position; obs keeps the per-line tensions of the tether system and the
\* differential term the function added to torque.y
CalculateAndApplyTorque ==
    /\ obs.op = "position"
    /\ \E fr \in {calculateAndApplyTorque(getKiteProperties(kiteProperties), tetherConfig)} :
          kiteProperties' = fr.k
    /\ \E used \in {approximateTensions(getTetherForces(kiteProperties, tetherConfig))} :
          obs' = [ op           |-> "calculateAndApplyTorque",
                   position     |-> kiteProperties.position,
                   forces       |-> calculateTetherForces(kiteProperties, tetherConfig),
                   differential |-> differentialTorque(used.leftTension, used.rightTension) ]
    /\ UNCHANGED <<windState, tetherConfig, config, isRunning, accumulator>>

NextTension == CalculateLineTension \/ CalculateTetherForces \/ CalculateAndApplyTorque

SpecTension == InitTension /\ [][NextTension]_vars

----------------------------------------------------------------------------
(* The kite on its own: applyForce, applyTorque and resetKite of kite.js called
   with drawn vectors, and single sub-steps of the engine *)

\* number of calls in a behaviour
MaxCalls == 3

\* forces: small, beyond the velocity limit, infinite either way, not a number
Forces ==
    { VecN(0, 10000, 0), VecN(20000, 0, -5000), VecN(0, 1000000, 0),
      Vec(PInf, Zero, Zero), Vec(NInf, Zero, Zero),
      Vec(NaN, Zero, Zero), Vec(Zero, NaN, Zero), Vec(Zero, One, NaN) }

\* torques: small, beyond the angular velocity limit, infinite, not a number
Torques ==
    { VecN(100, 0, 0), VecN(0, 100000, 0), Vec(Zero, Zero, PInf),
      Vec(NaN, Zero, Zero), Vec(One, NaN, Zero), Vec(Zero, Zero, NaN) }

\* the wind as loaded, and the wind after setWindDirection(0, 0, 0) and one
\* updateWind, whose direction is not a number
WindStates ==
    { WindStateInit,
      updateWind(setWindDirection(WindStateInit, Zero, Zero, Zero),
                 Zero, Zero, Lit(5000), Lit(5000), Lit(5000)) }

\* a kite let go at rest 5 m above the ground, 10 m in front of the pilot, the
\* lines slack
DroppedKite == [KitePropertiesInit EXCEPT !.position = VecN(0, 50000, -200000)]
StillAir == [ConfigInit EXCEPT !.enableWind = FALSE]

\* the dropped kite after 15 sub-steps in still air, one sub-step above the ground
FallingKite ==
    [DroppedKite EXCEPT !.position = VecN(0, 9489, -200000),
                        !.velocity = VecN(0, -5652, 0),
                        !.smoothedAcceleration = VecN(0, -700, 0)]

\* position, rotation and the two velocities of a kite
Pose(k) ==
    [ position |-> k.position, rotation |-> k.rotation,
      velocity |-> k.velocity, angularVelocity |-> k.angularVelocity ]

PoseFinite(p) ==
    /\ VecFinite(p.position) /\ VecFinite(p.rotation)
    /\ VecFinite(p.velocity) /\ VecFinite(p.angularVelocity)

\* what a call leaves to look at: the operation and its argument, the number
\* of calls so far, the operation before it, kiteProperties as the call found
\* it, whether the integration of the call left a value that is not finite in
\* the pose, and for resetKite the kite a second resetKite right after it gives
Called(op, arg, produced, twice) ==
    [ op |-> op, arg |-> arg, calls |-> obs.calls + 1, previous |-> obs.op,
      before |-> kiteProperties, produced |-> produced, twice |-> twice ]

InitKite ==
    /\ windState \in WindStates
    /\ tetherConfig = TetherConfigInit
    /\ kiteProperties \in {KitePropertiesInit, FallingKite}
    /\ config = ConfigInit
    /\ isRunning = FALSE
    /\ accumulator = Zero
    /\ obs = [ op |-> "load", arg |-> ZeroVec, calls |-> 0, previous |-> "load",
               before |-> kiteProperties, produced |-> FALSE,
               twice |-> kiteProperties ]

ApplyForce ==
    \E force \in Forces :
        /\ obs.calls < MaxCalls
        /\ \E r \in {applyForce(kiteProperties, force)} :
             /\ kiteProperties' = r.k
             /\ obs' = Called("applyForce", force, ~PoseFinite(Pose(r.integrated)), r.k)
        /\ UNCHANGED <<windState, tetherConfig, config, isRunning, accumulator>>

ApplyTorque ==
    \E torque \in Torques :
        /\ obs.calls < MaxCalls
        /\ \E r \in {applyTorque(kiteProperties, torque)} :
             /\ kiteProperties' = r.k
             /\ obs' = Called("applyTorque", torque, ~PoseFinite(Pose(r.integrated)), r.k)
        /\ UNCHANGED <<windState, tetherConfig, config, isRunning, accumulator>>

ResetKite ==
    /\ obs.calls < MaxCalls
    /\ kiteProperties' = resetKite(kiteProperties)
    /\ obs' = Called("resetKite", ZeroVec, FALSE, resetKite(resetKite(kiteProperties)))
    /\ UNCHANGED <<windState, tetherConfig, config, isRunning, accumulator>>

\* a sub-step whose length grows with the number of calls made before it
StepPhysicsDrifting ==
    /\ obs.calls < MaxCalls
    /\ \E k \in {stepPhysics(kiteProperties, config, windState, tetherConfig,
                              Mul(FIXED_TIME_STEP, Num(S * (obs.calls + 1))))} :
         /\ kiteProperties' = k
         /\ obs' = Called("stepPhysics", ZeroVec, FALSE, k)
    /\ UNCHANGED <<windState, tetherConfig, config, isRunning, accumulator>>

StepPhysics ==
    /\ obs.calls < MaxCalls
    /\ \E k \in {stepPhysics(kiteProperties, config, windState, tetherConfig,
                              FIXED_TIME_STEP)} :
         /\ kiteProperties' = k
         /\ obs' = Called("stepPhysics", ZeroVec, FALSE, k)
    /\ UNCHANGED <<windState, tetherConfig, config, isRunning, accumulator>>

NextKite == ApplyForce \/ ApplyTorque \/ ResetKite \/ StepPhysics

SpecKite == InitKite /\ [][NextKite]_vars

----------------------------------------------------------------------------
(* A flight: the sub-steps that the frames of a running engine perform one
   after the other, from the launch and from a drop in still air *)

\* number of sub-steps of a flight
MaxSubSteps == 125

\* what a sub-step leaves to look at: the count of sub-steps, kiteProperties
\* before the sub-step and when its ground check began, whether the ground
\* check found the kite below the buffer, in this sub-step (fired) or in this
\* or an earlier one (landed)
Stepped(steps, before, atCheck, fired, landed) ==
    [ op |-> "stepPhysics", steps |-> steps, before |-> before, atCheck |-> atCheck,
      fired |-> fired, landed |-> landed ]

InitFlight ==
    /\ windState = WindStateInit
    /\ tetherConfig = TetherConfigInit
    /\ \/ kiteProperties = KitePropertiesInit /\ config = ConfigInit
       \/ kiteProperties = DroppedKite /\ config = StillAir
    /\ isRunning = TRUE
    /\ accumulator = Zero
    /\ obs = [ op |-> "load", steps |-> 0, before |-> kiteProperties,
               atCheck |-> kiteProperties, fired |-> FALSE, landed |-> FALSE ]

SubStep ==
    /\ obs.steps < MaxSubSteps
    /\ kiteProperties' = stepPhysics(kiteProperties, config, windState, tetherConfig,
                                     FIXED_TIME_STEP)
    /\ \E fr \in {stepPhysicsForces(kiteProperties, config, windState, tetherConfig,
                                     FIXED_TIME_STEP)} :
         \E fired \in {config.enableCollisions /\ Lt(KiteRef(fr).position.y, groundBuffer)} :
            obs' = Stepped(obs.steps + 1, kiteProperties, fr.k, fired, obs.landed \/ fired)
    /\ UNCHANGED <<windState, tetherConfig, config, isRunning, accumulator>>

NextFlight == SubStep

SpecFlight == InitFlight /\ [][NextFlight]_vars

----------------------------------------------------------------------------
(* The frame loop and the controls: animate() of main.js, and the listeners of
   controls.js that write the control inputs between two frames *)

\* number of frames of a behaviour
MaxAnimations == 2

\* a slider at its left end and at its right end (value / 100)
SliderValues == {Zero, One}

\* the time between two frames: 1/60 s
FrameTimes == {Lit(167)}

\* the control listeners run between two frames, one before each frame
ControlsOpen == obs.op \in {"load", "animate"} /\ obs.frames < MaxAnimations

Written(op) == [obs EXCEPT !.op = op]

InitFrame ==
    /\ windState = WindStateInit
    /\ tetherConfig = TetherConfigInit
    /\ kiteProperties = KitePropertiesInit
    /\ config = ConfigInit
    /\ isRunning = TRUE
    /\ accumulator = Zero
    /\ obs = [ op |-> "load", frames |-> 0, steps |-> 0,
               usedWind |-> WindStateInit, usedTether |-> TetherConfigInit ]

\* the listener of the wind slider
WindControlInput ==
    \E value \in SliderValues :
        /\ ControlsOpen
        /\ windState' = setWindSpeed(windState, value)
        /\ obs' = Written("setWindSpeed")
        /\ UNCHANGED <<tetherConfig, kiteProperties, config, isRunning, accumulator>>

\* the listener of the line length slider: 0..1 mapped to -1..1
LineLengthInput ==
    \E value \in SliderValues :
        /\ ControlsOpen
        /\ tetherConfig' = setOverallLineLength(tetherConfig,
                                                Mul(Sub(value, Lit(5000)), Lit(20000)))
        /\ obs' = Written("setOverallLineLength")
        /\ UNCHANGED <<windState, kiteProperties, config, isRunning, accumulator>>

\* the listeners of the left and the right line slider
LeftLineInput ==
    \E value \in SliderValues :
        /\ ControlsOpen
        /\ tetherConfig' = setLeftInput(tetherConfig, value)
        /\ obs' = Written("setLeftInput")
        /\ UNCHANGED <<windState, kiteProperties, config, isRunning, accumulator>>

RightLineInput ==
    \E value \in SliderValues :
        /\ ControlsOpen
        /\ tetherConfig' = setRightInput(tetherConfig, value)
        /\ obs' = Written("setRightInput")
        /\ UNCHANGED <<windState, kiteProperties, config, isRunning, accumulator>>

\* setDifferentialLineLength, which the tether system exports
DifferentialLineInput ==
    \E adjustment \in {Neg(One), One} :
        /\ ControlsOpen
        /\ tetherConfig' = setDifferentialLineLength(tetherConfig, adjustment)
        /\ obs' = Written("setDifferentialLineLength")
        /\ UNCHANGED <<windState, kiteProperties, config, isRunning, accumulator>>

\* animate(currentTime), no key held down: updatePhysics, updateWind,
\* updateTethers, in this order; what follows them only draws.  obs keeps the
\* wind and the tether state that the sub-steps of the frame read.
Animate ==
    \E deltaTime \in FrameTimes, sineOfClock \in {Zero}, r1 \in SpeedDraws :
        /\ obs.frames < MaxAnimations
        /\ \E r \in {updatePhysics(isRunning, accumulator, kiteProperties, config,
                                    windState, tetherConfig, deltaTime)} :
              /\ kiteProperties' = r.k
              /\ accumulator' = r.accumulator
              /\ obs' = [ op |-> "animate", frames |-> obs.frames + 1, steps |-> r.steps,
                          usedWind |-> windState, usedTether |-> tetherConfig ]
        /\ windState' = updateWind(windState, sineOfClock, r1, Lit(5000), Lit(5000), Lit(5000))
        /\ tetherConfig' = updateTethers(tetherConfig)
        /\ UNCHANGED <<config, isRunning>>

NextFrame ==
    \/ WindControlInput \/ LineLengthInput \/ LeftLineInput \/ RightLineInput
    \/ DifferentialLineInput \/ Animate

SpecFrame == InitFrame /\ [][NextFrame]_vars

----------------------------------------------------------------------------
(* One sub-step, statement by statement: stepPhysics of engine.js with the
   position in its body kept in obs.pc *)

\* a body in which the ground check comes before the torque
nextStageCollisionEarly(pc) ==
    CASE pc = "gravity"         -> "aerodynamics"
      [] pc = "aerodynamics"    -> "tether"
      [] pc = "tether"          -> "stabilizing"
      [] pc = "stabilizing"     -> "applyForce"
      [] pc = "applyForce"      -> "groundCollision"
      [] pc = "groundCollision" -> "applyTorque"
      [] pc = "applyTorque"     -> "done"

\* the statements of stepPhysics in the order of its body
nextStage(pc) ==
    CASE pc = "gravity"         -> "aerodynamics"
      [] pc = "aerodynamics"    -> "tether"
      [] pc = "tether"          -> "stabilizing"
      [] pc = "stabilizing"     -> "applyForce"
      [] pc = "applyForce"      -> "applyTorque"
      [] pc = "applyTorque"     -> "groundCollision"
      [] pc = "groundCollision" -> "done"

\* the kites a sub-step starts from: launched, dropped, and about to reach the ground
StartKites == {KitePropertiesInit, DroppedKite, FallingKite}

\* the settings of updatePhysicsConfig for the four switches of config
Switches ==
    { [ConfigInit EXCEPT !.enableGravity = g, !.enableWind = w, !.enableDrag = d,
                         !.enableCollisions = c] :
        g \in BOOLEAN, w \in BOOLEAN, d \in BOOLEAN, c \in BOOLEAN }

\* the object `kite` of the sub-step under way
Frame == [k |-> kiteProperties, aliased |-> obs.aliased, view |-> obs.view]

\* obs after a statement: the statements that ran so far (a switched-off one
\* does not run), totalForce, and what `kite` refers to
Passed(stage, ran, totalForce, fr) ==
    [obs EXCEPT !.pc = nextStage(stage),
                !.ran = IF ran THEN Append(@, stage) ELSE @,
                !.totalForce = totalForce,
                !.aliased = fr.aliased,
                !.view = fr.view]

InitStages ==
    /\ windState = WindStateInit
    /\ tetherConfig = TetherConfigInit
    /\ kiteProperties \in StartKites
    /\ config \in Switches
    /\ isRunning = TRUE
    /\ accumulator = Zero
    /\ obs = [ pc |-> "gravity", ran |-> <<>>, totalForce |-> ZeroVec, start |-> kiteProperties,
               aliased |-> TRUE, view |-> FourOf(kiteProperties) ]

AccumulateGravity ==
    /\ obs.pc = "gravity"
    /\ obs' = Passed("gravity", config.enableGravity,
                     IF config.enableGravity
                     THEN [obs.totalForce EXCEPT
                             !.y = Sub(@, Mul(KiteRef(Frame).mass, GRAVITY))]
                     ELSE obs.totalForce,
                     Frame)
    /\ UNCHANGED <<windState, tetherConfig, kiteProperties, config, isRunning, accumulator>>

AccumulateAerodynamics ==
    /\ obs.pc = "aerodynamics"
    /\ \E aeroForces \in {calculateAerodynamicForces(KiteRef(Frame), windState)} :
          obs' = Passed("aerodynamics", config.enableWind,
                        IF config.enableWind
                        THEN VAdd(obs.totalForce, VAdd(aeroForces.lift, aeroForces.drag))
                        ELSE obs.totalForce,
                        Frame)
    /\ UNCHANGED <<windState, tetherConfig, kiteProperties, config, isRunning, accumulator>>

AccumulateTether ==
    /\ obs.pc = "tether"
    /\ obs' = Passed("tether", TRUE,
                     VAdd(obs.totalForce, getTetherForces(kiteProperties, tetherConfig)),
                     Frame)
    /\ UNCHANGED <<windState, tetherConfig, kiteProperties, config, isRunning, accumulator>>

AccumulateStabilizing ==
    /\ obs.pc = "stabilizing"
    /\ obs' = Passed("stabilizing", TRUE,
                     VAdd(obs.totalForce, calculateStabilizingForce(KiteRef(Frame))),
                     Frame)
    /\ UNCHANGED <<windState, tetherConfig, kiteProperties, config, isRunning, accumulator>>

ApplyTotalForce ==
    /\ obs.pc = "applyForce"
    /\ \E fr \in {AfterApply(Frame, applyForce(kiteProperties,
                                                VScale(obs.totalForce, FIXED_TIME_STEP)))} :
          /\ kiteProperties' = fr.k
          /\ obs' = Passed("applyForce", TRUE, obs.totalForce, fr)
    /\ UNCHANGED <<windState, tetherConfig, config, isRunning, accumulator>>

ApplyTetherTorque ==
    /\ obs.pc = "applyTorque"
    /\ \E fr \in {calculateAndApplyTorque(Frame, tetherConfig)} :
          /\ kiteProperties' = fr.k
          /\ obs' = Passed("applyTorque", TRUE, obs.totalForce, fr)
    /\ UNCHANGED <<windState, tetherConfig, config, isRunning, accumulator>>

GroundCollision ==
    /\ obs.pc = "groundCollision"
    /\ \E fr \in {IF config.enableCollisions THEN checkGroundCollision(Frame) ELSE Frame} :
          /\ kiteProperties' = fr.k
          /\ obs' = Passed("groundCollision", config.enableCollisions, obs.totalForce, fr)
    /\ UNCHANGED <<windState, tetherConfig, config, isRunning, accumulator>>

NextStages ==
    \/ AccumulateGravity \/ AccumulateAerodynamics \/ AccumulateTether
    \/ AccumulateStabilizing \/ ApplyTotalForce \/ ApplyTetherTorque \/ GroundCollision

SpecStages == InitStages /\ [][NextStages]_vars

----------------------------------------------------------------------------
(* One call of updatePhysics, iteration by iteration: the position in the call
   is kept in obs.pc ("idle" between calls, "while" at the test of the loop) *)

\* a kite that applyForce was handed an infinite force for
StuckKite == applyForce(KitePropertiesInit, Vec(PInf, Zero, Zero)).k

\* the time scales of updatePhysicsConfig that a call runs under
TimeScales == {One, Lit(20000)}

\* the deltaTime arguments of a call: those of the stepper, and a frame that
\* took no time
LoopDeltaTimes == DeltaTimes \cup {Zero}

\* the state of the loop at obs.pc = "while"
LoopState ==
    [k |-> kiteProperties, accumulator |-> accumulator, steps |-> obs.steps,
     c |-> config, w |-> windState, t |-> tetherConfig]

\* the test of the while loop
loopTest(ls) == Ge(ls.accumulator, FIXED_TIME_STEP) /\ ls.steps < maxSteps

InitLoop ==
    /\ windState = WindStateInit
    /\ tetherConfig = TetherConfigInit
    /\ \/ kiteProperties = KitePropertiesInit
          /\ \E timeScale \in TimeScales : config = updatePhysicsConfig(ConfigInit, [timeScale |-> timeScale])
       \/ kiteProperties = StuckKite
          /\ config = updatePhysicsConfig(ConfigInit, [timeScale |-> PInf])
    /\ isRunning \in BOOLEAN
    /\ accumulator = Zero
    /\ obs = [pc |-> "idle", calls |-> 0, steps |-> 0, entered |-> Zero, found |-> Zero,
              deltaTime |-> Zero]

\* updatePhysics(deltaTime) up to the loop
EnterUpdatePhysics ==
    \E deltaTime \in LoopDeltaTimes :
        /\ obs.pc = "idle"
        /\ obs.calls < MaxFrames
        /\ IF ~isRunning
           THEN /\ obs' = [obs EXCEPT !.calls = @ + 1, !.steps = 0, !.entered = accumulator,
                                      !.found = accumulator, !.deltaTime = deltaTime]
                /\ UNCHANGED accumulator
           ELSE \E entered \in {Add(accumulator, Mul(MathMin(deltaTime, maxDeltaTime),
                                                      config.timeScale))} :
                   /\ accumulator' = entered
                   /\ obs' = [pc |-> "while", calls |-> obs.calls + 1, steps |-> 0,
                              entered |-> entered, found |-> accumulator,
                              deltaTime |-> deltaTime]
        /\ UNCHANGED <<windState, tetherConfig, kiteProperties, config, isRunning>>

\* one iteration of the loop
Iterate ==
    /\ obs.pc = "while"
    /\ loopTest(LoopState)
    /\ \E ls \in {LoopBody(LoopState)} :
          /\ kiteProperties' = ls.k
          /\ accumulator' = ls.accumulator
          /\ obs' = [obs EXCEPT !.steps = ls.steps]
    /\ UNCHANGED <<windState, tetherConfig, config, isRunning>>

\* the loop is left: the drain, and the return
LeaveLoop ==
    /\ obs.pc = "while"
    /\ ~loopTest(LoopState)
    /\ accumulator' = IF obs.steps >= maxSteps /\ Gt(accumulator, FIXED_TIME_STEP)
                      THEN Zero ELSE accumulator
    /\ obs' = [obs EXCEPT !.pc = "idle"]
    /\ UNCHANGED <<windState, tetherConfig, kiteProperties, config, isRunning>>

NextLoop == EnterUpdatePhysics \/ Iterate \/ LeaveLoop

SpecLoop == InitLoop /\ [][NextLoop]_vars

\* ENABLED <<Iterate>>_vars written out: the loop is at a passing test and its
\* body changes the state
IterateEnabled ==
    /\ obs.pc = "while"
    /\ loopTest(LoopState)
    /\ \E ls \in {LoopBody(LoopState)} :
          <<ls.k, ls.accumulator, ls.steps>> # <<kiteProperties, accumulator, obs.steps>>

\* a call that has begun runs on, since the host runs updatePhysics to
\* completion: weak fairness of LeaveLoop and of Iterate (for Iterate with
\* ENABLED written out as IterateEnabled)
FairSpecLoop ==
    /\ SpecLoop
    /\ WF_vars(LeaveLoop)
    /\ ([]<>(~IterateEnabled) \/ []<><<Iterate>>_vars)

----------------------------------------------------------------------------
(* Vector math: class Vector3 of utils.js.  The components of the vectors of
   this section count 1/Fine, so that lengths below 0.0001 can be told from 0 *)

Fine == 10 * S

\* the factor that keeps four digits of a square root of n
sqrtScale(n) ==
    IF n < 100 THEN 1000 ELSE IF n < 10000 THEN 100 ELSE IF n < 1000000 THEN 10 ELSE 1

\* Vector3.magnitude(): Math.sqrt(x * x + y * y + z * z), as m / s for a number
magnitude(v) ==
    IF VecIsNaN(v) THEN [k |-> "nan", m |-> 0, s |-> 1]
    ELSE IF ~VecFinite(v) THEN [k |-> "inf", m |-> 0, s |-> 1]
    ELSE LET n == v.x.v * v.x.v + v.y.v * v.y.v + v.z.v * v.z.v
             s == sqrtScale(n)
         IN [k |-> "num", m |-> Isqrt(n * s * s), s |-> s]

\* a component divided by the magnitude (x /= mag)
divideByMagnitude(x, mag) ==
    IF isNaN(x) \/ mag.k = "nan" THEN NaN
    ELSE IF IsInf(x) THEN (IF mag.k = "inf" THEN NaN ELSE x)
    ELSE IF mag.k = "inf" THEN Zero
    ELSE Num(RoundDiv(x.v * mag.s * Fine, mag.m))

\* Vector3.normalize(): the vector itself, divided by its magnitude if that is > 0
normalize(v) ==
    LET mag == magnitude(v)
    IN IF mag.k = "inf" \/ (mag.k = "num" /\ mag.m > 0)
       THEN Vec(divideByMagnitude(v.x, mag), divideByMagnitude(v.y, mag),
                divideByMagnitude(v.z, mag))
       ELSE v

\* components of the vectors handed to new Vector3: 0, values below and at
\* 0.0001, values of ordinary size, NaN and Infinity
Components == {Zero, Num(3), Num(4), Num(Fine \div S), Num(-3000), Num(4000), NaN, PInf}

InitVector ==
    /\ windState = WindStateInit
    /\ tetherConfig = TetherConfigInit
    /\ kiteProperties = KitePropertiesInit
    /\ config = ConfigInit
    /\ isRunning = FALSE
    /\ accumulator = Zero
    /\ \E x \in Components, y \in Components, z \in Components :
          obs = [op |-> "new", v |-> Vec(x, y, z), arg |-> Vec(x, y, z)]

Normalize ==
    /\ obs.op = "new"
    /\ obs' = [op |-> "normalize", v |-> normalize(obs.v), arg |-> obs.v]
    /\ UNCHANGED <<windState, tetherConfig, kiteProperties, config, isRunning, accumulator>>

NextVector == Normalize

SpecVector == InitVector /\ [][NextVector]_vars

----------------------------------------------------------------------------
(* The lift curve of calculateAerodynamicForces, swept over the values of
   clampedDot from 1 (angle of attack 0) down to -1 (angle of attack pi) *)

DotStep == Lit(100)

\* angleOfAttack and liftCoef of calculateAerodynamicForces at a clampedDot,
\* with what the sweep found one step before
LiftAt(clampedDot, previous) ==
    Bind(MathAcos(clampedDot), LAMBDA angleOfAttack :
    [ op |-> "liftCoefficient", clampedDot |-> clampedDot, angleOfAttack |-> angleOfAttack,
      liftCoef |-> LiftCoefficient(angleOfAttack), previous |-> previous ])

InitLift ==
    /\ windState = WindStateInit
    /\ tetherConfig = TetherConfigInit
    /\ kiteProperties = KitePropertiesInit
    /\ config = ConfigInit
    /\ isRunning = FALSE
    /\ accumulator = Zero
    /\ obs = LiftAt(One, [angleOfAttack |-> Zero, liftCoef |-> Zero])

SweepAngle ==
    /\ Gt(obs.clampedDot, Neg(One))
    /\ obs' = LiftAt(Sub(obs.clampedDot, DotStep),
                     [angleOfAttack |-> obs.angleOfAttack, liftCoef |-> obs.liftCoef])
    /\ UNCHANGED <<windState, tetherConfig, kiteProperties, config, isRunning, accumulator>>

NextLift == SweepAngle

SpecLift == InitLift /\ [][NextLift]_vars

----------------------------------------------------------------------------
(* Claims about the stepper, checked under Spec *)

\* C1: a call of updatePhysics made while the engine runs executes at most
\* maxSteps (10) sub-steps, and when it stops at that bound with more than one
\* fixed step still banked, the accumulator is exactly 0 when it returns
C1_StepBoundAndDrain ==
    (obs.op = "updatePhysics" /\ obs.ran) =>
        /\ obs.steps <= maxSteps
        /\ (obs.steps >= maxSteps /\ Gt(obs.banked, FIXED_TIME_STEP)) => accumulator = Zero

\* an overloaded call: the bound was hit with more than a step banked, and the
\* accumulator was drained
C1_Witness ==
    /\ obs.op = "updatePhysics" /\ obs.ran
    /\ obs.steps = maxSteps
    /\ Gt(obs.banked, FIXED_TIME_STEP)
    /\ accumulator = Zero

\* the sub-steps owed to the time acc + min(deltaTime, 0.1) * timeScale, by
\* division: none when that time is not a number or less than a step
StepsOwed(acc, deltaTime, timeScale) ==
    LET time == Add(acc, Mul(MathMin(deltaTime, maxDeltaTime), timeScale))
    IN IF ~isFinite(time) \/ time.v < FIXED_TIME_STEP.v THEN 0
       ELSE IF time.v \div FIXED_TIME_STEP.v > maxSteps THEN maxSteps
       ELSE time.v \div FIXED_TIME_STEP.v

\* C5: while isRunning is false an updatePhysics call runs no sub-step and
\* leaves the accumulator and the kite as they are; a call that finds the engine
\* running runs the sub-steps owed to its own deltaTime and to the accumulator
\* it finds, which is the leftover of before the pause
C5_IdleIgnored ==
    [][ /\ (obs' # obs /\ ~isRunning) =>
              /\ obs'.steps = 0
              /\ accumulator' = accumulator
              /\ kiteProperties' = kiteProperties
        /\ (obs' # obs /\ isRunning) =>
              obs'.steps = StepsOwed(accumulator, obs'.deltaTime, config.timeScale) ]_vars

\* an update that found the engine paused while time was banked
C5_Witness ==
    /\ obs.op = "updatePhysics" /\ ~obs.ran
    /\ obs.frames >= 1
    /\ Gt(accumulator, Zero)

----------------------------------------------------------------------------
(* Claims about the wind field, checked under SpecWind *)

\* userWindScale is in [0, 1]
ScaleInRange == Le(Zero, windState.userWindScale) /\ Le(windState.userWindScale, One)

\* 0.1 * baseSpeed * userWindScale
ScaledFloor == Mul(Mul(windState.baseSpeed, Lit(1000)), windState.userWindScale)

C8_UnitDirection ==
    /\ ~VecIsNaN(windState.currentDirection)
    /\ Le(Sub(MagSquared(windState.currentDirection), One), Lit(10))
    /\ Le(Sub(One, MagSquared(windState.currentDirection)), Lit(10))
    /\ obs.op = "setWindDirection" => windState.baseDirection = windState.currentDirection

\* C9 as stated: after setWindSpeed(0) every updateWind leaves currentSpeed at
\* 0.1 * baseSpeed
C9_Original ==
    (obs.op = "updateWind" /\ windState.userWindScale = Zero) =>
        windState.currentSpeed = Mul(Lit(1000), windState.baseSpeed)

\* C9: after setWindSpeed(0) every updateWind leaves currentSpeed at the
\* absolute floor 0.1, whatever the gust phase and the turbulence draw
C9_FloorAtZeroScale ==
    (obs.op = "updateWind" /\ windState.userWindScale = Zero) =>
        windState.currentSpeed = Lit(1000)

\* an updateWind at scale 0, with the speed on the floor
C9_Witness ==
    /\ obs.op = "updateWind"
    /\ windState.userWindScale = Zero
    /\ windState.currentSpeed = Lit(1000)
    /\ windState.baseSpeed = Lit(50000)

----------------------------------------------------------------------------
(* Claims about the tether controls, checked under SpecTether *)

\* C6: in every state reached through the four setters, with arbitrary numeric
\* arguments, leftInput and rightInput are in [0, 1] and the overall and the
\* differential length adjustments are in [-1, 1]
C6_InputsClamped ==
    /\ Le(Zero, tetherConfig.leftInput) /\ Le(tetherConfig.leftInput, One)
    /\ Le(Zero, tetherConfig.rightInput) /\ Le(tetherConfig.rightInput, One)
    /\ Le(Neg(One), tetherConfig.overallLengthAdjustment)
    /\ Le(tetherConfig.overallLengthAdjustment, One)
    /\ Le(Neg(One), tetherConfig.differentialLengthAdjustment)
    /\ Le(tetherConfig.differentialLengthAdjustment, One)

----------------------------------------------------------------------------
(* Claims about the line tension, checked under SpecTension *)

Slack(distance, lineLength, input) == Le(distance, EffectiveLength(lineLength, input))

\* C10: for a line length > 0, an input in [0, 1] and a distance >= 0 the
\* tension of calculateLineTension is 0 while distance <= effectiveLength, is
\* strictly larger at the larger of two distances beyond effectiveLength, and
\* is never negative; the tensions calculateTetherForces returns, with the
\* ground-proximity factor applied, are not negative and are 0 for a slack line
C10_TensionLaw ==
    /\ obs.op = "calculateLineTension" =>
          /\ Ge(obs.tension, Zero)
          /\ Slack(obs.distance, obs.lineLength, obs.input) => obs.tension = Zero
          /\ (~Slack(obs.distance, obs.lineLength, obs.input)
                 /\ Gt(obs.farther, obs.distance))
               => Gt(obs.tensionFarther, obs.tension)
    /\ obs.op = "calculateTetherForces" =>
          /\ Ge(obs.forces.leftTension, Zero)
          /\ Ge(obs.forces.rightTension, Zero)
          /\ Slack(obs.forces.leftDistance, tetherConfig.leftLineLength,
                   tetherConfig.leftInput) => obs.forces.leftTension = Zero
          /\ Slack(obs.forces.rightDistance, tetherConfig.rightLineLength,
                   tetherConfig.rightInput) => obs.forces.rightTension = Zero

\* a line shorter than its effective length carries no tension although the
\* kite is 0.2 m above the ground, where the ground-proximity factor is above 1
C10_Witness ==
    /\ obs.op = "calculateTetherForces"
    /\ kiteProperties.position.y = Lit(2000)
    /\ Slack(obs.forces.leftDistance, tetherConfig.leftLineLength, tetherConfig.leftInput)
    /\ Gt(obs.forces.leftDistance, Zero)
    /\ obs.forces.leftTension = Zero

----------------------------------------------------------------------------
(* Claims about the kite, checked under SpecKite *)

\* the launch pose in numbers: 30 m of line at 30 degrees in front of the
\* pilot at (0, 0, -10), nose 60 degrees down, at rest
Near(a, b) == isFinite(a) /\ a.v - b.v <= 10 /\ b.v - a.v <= 10
VecNear(a, b) == Near(a.x, b.x) /\ Near(a.y, b.y) /\ Near(a.z, b.z)
InLaunchPose(k) ==
    /\ VecNear(k.position, VecN(0, 150000, -359808))
    /\ VecNear(k.rotation, VecN(-10472, 0, 0))
    /\ k.velocity = ZeroVec
    /\ k.angularVelocity = ZeroVec

\* C2: after every call, and so at the end of every sub-step, no component of
\* position, velocity, rotation or angularVelocity is NaN or infinite, whatever
\* finite or non-finite force or torque was applied; when the integration of
\* an applyForce or applyTorque left a NaN or an infinite value in one of
\* them, the kite is in the launch pose when the call returns
C2_PoseFinite ==
    /\ PoseFinite(Pose(kiteProperties))
    /\ (obs.op \in {"applyForce", "applyTorque"} /\ obs.produced)
         => InLaunchPose(kiteProperties)

C2_Witness ==
    /\ obs.op = "applyForce"
    /\ obs.arg = Vec(PInf, Zero, Zero)
    /\ obs.produced
    /\ obs.previous = "applyTorque"
    /\ InLaunchPose(kiteProperties)

\* C3: after resetKite the position, the rotation and the two velocities are
\* the launch values, whatever calls came before, and a second resetKite right
\* after the first leaves the state the first left
C3_ResetPose ==
    obs.op = "resetKite" =>
        /\ InLaunchPose(kiteProperties)
        /\ obs.twice = kiteProperties

C3_Witness ==
    /\ obs.op = "resetKite"
    /\ obs.previous = "stepPhysics"
    /\ obs.calls = MaxCalls
    /\ InLaunchPose(kiteProperties)

\* C4: after resetKite the two smoothing accumulators are zero, and the first
\* applyForce or applyTorque after a resetKite leaves the position, velocity,
\* rotation and angular velocity that the same call leaves on a kite that was
\* never stepped and sits in the launch pose
C4_AccumulatorsCleared ==
    /\ obs.op = "resetKite" =>
          /\ kiteProperties.smoothedAcceleration = ZeroVec
          /\ kiteProperties.smoothedAngularAcceleration = ZeroVec
    /\ (obs.op = "applyForce" /\ obs.previous = "resetKite") =>
          Pose(kiteProperties)
            = Pose(applyForce(resetKite(KitePropertiesInit), obs.arg).k)
    /\ (obs.op = "applyTorque" /\ obs.previous = "resetKite") =>
          Pose(kiteProperties)
            = Pose(applyTorque(resetKite(KitePropertiesInit), obs.arg).k)

----------------------------------------------------------------------------
(* C11: the differential yaw term of calculateAndApplyTorque *)

\* both lines are longer stretched than their effective length
BothTaut ==
    /\ ~Slack(obs.forces.leftDistance, tetherConfig.leftLineLength, tetherConfig.leftInput)
    /\ ~Slack(obs.forces.rightDistance, tetherConfig.rightLineLength, tetherConfig.rightInput)

\* C11: in calculateAndApplyTorque the differential yaw term is zero when the
\* inputs are equal and the geometry is symmetric, and it is positive when both
\* lines are taut and rightInput > leftInput (the right line then pulls harder)
C11_DifferentialYaw ==
    obs.op = "calculateAndApplyTorque" =>
        /\ (tetherConfig.leftInput = tetherConfig.rightInput /\ obs.position.x = Zero)
               => obs.differential = Zero
        /\ (BothTaut /\ Gt(tetherConfig.rightInput, tetherConfig.leftInput))
               => /\ Gt(obs.forces.rightTension, obs.forces.leftTension)
                  /\ Gt(obs.differential, Zero)

----------------------------------------------------------------------------
(* C13: applyForce and applyTorque reject an argument that is not a number *)

\* C13: applyForce(force) with a NaN in any component of force and
\* applyTorque(torque) with a NaN in any component of torque leave position,
\* velocity, rotation, angularVelocity and both smoothing accumulators exactly
\* as they were; no reset takes place
C13_NaNRejected ==
    (obs.op \in {"applyForce", "applyTorque"} /\ VecIsNaN(obs.arg)) =>
        /\ kiteProperties = obs.before
        /\ ~obs.produced

\* a kite that an earlier force set in motion is handed a force with a NaN
\* component: a reset would have stopped it
C13_Witness ==
    /\ obs.op = "applyForce"
    /\ obs.arg = Vec(Zero, One, NaN)
    /\ obs.previous = "applyForce"
    /\ kiteProperties.velocity # ZeroVec
    /\ kiteProperties.smoothedAcceleration # ZeroVec
    /\ kiteProperties.position # LaunchPosition

----------------------------------------------------------------------------
(* C12: the net tether force stays within the maximum force *)

\* C12: for every position and velocity that stepping reaches, the magnitude of
\* the vector getTetherForces returns, damping subtracted, is at most 20
C12_NetForceBounded ==
    Le(MathSqrt(MagSquared(getTetherForces(kiteProperties, tetherConfig))), Lit(200010))

----------------------------------------------------------------------------
(* C14: the ground check keeps the kite at or above the buffer *)

\* C14: with collisions enabled position.y is at least the ground buffer 0.5 at
\* the end of every sub-step; at the end of a sub-step whose ground check found
\* the kite below the buffer, position.y is 0.5, velocity.y is not negative, and
\* the horizontal velocity is 0.7 times what the repulsion force left
C14_GroundHeld ==
    (obs.op = "stepPhysics" /\ config.enableCollisions) =>
        /\ Ge(kiteProperties.position.y, groundBuffer)
        /\ obs.fired =>
              /\ kiteProperties.position.y = groundBuffer
              /\ Ge(kiteProperties.velocity.y, Zero)
              /\ \E hit \in {applyForce(obs.atCheck,
                                         Vec(Zero,
                                             Mul(Mul(obs.atCheck.mass, GRAVITY), Lit(20000)),
                                             Zero)).k} :
                    /\ kiteProperties.velocity.x = Mul(hit.velocity.x, Lit(7000))
                    /\ kiteProperties.velocity.z = Mul(hit.velocity.z, Lit(7000))

\* the launched kite, blown down by the wind, is caught by the ground check
\* while it moves along the ground
C14_Witness ==
    /\ obs.op = "stepPhysics" /\ obs.fired
    /\ config.enableCollisions /\ config.enableWind
    /\ Lt(obs.atCheck.position.y, groundBuffer)
    /\ kiteProperties.position.y = groundBuffer
    /\ kiteProperties.velocity.z # Zero

----------------------------------------------------------------------------
(* C15: the drop in still air *)

\* C15: with wind disabled and gravity and collisions enabled, a kite dropped
\* at rest from 5 m with slack lines falls to the buffer height; from the
\* sub-step that reaches it on, velocity.y is never negative, and once
\* position.y equals the buffer height it equals it after every later sub-step
C15_FallAndRest ==
    (obs.op = "stepPhysics" /\ config = StillAir /\ obs.landed) =>
        /\ Ge(kiteProperties.velocity.y, Zero)
        /\ obs.before.position.y = groundBuffer => kiteProperties.position.y = groundBuffer

----------------------------------------------------------------------------
(* C20: the integration rule of a sub-step *)

\* C20: a sub-step of length dt under the total force F changes the velocity
\* by (F / m) * dt and then the position by velocity * dt (semi-implicit
\* Euler), so that the displacement is proportional to dt
C20_SemiImplicitEuler ==
    (obs.op = "stepPhysics" /\ ~obs.fired) =>
        \E F \in {TotalForce(obs.before, config, windState, tetherConfig)} :
            /\ VecNear(VSub(kiteProperties.velocity, obs.before.velocity),
                       VScale(VDivS(F, obs.before.mass), FIXED_TIME_STEP))
            /\ VecNear(VSub(kiteProperties.position, obs.before.position),
                       VScale(kiteProperties.velocity, FIXED_TIME_STEP))

----------------------------------------------------------------------------
(* C18: the state that determines the sub-steps to come *)

\* a freshly loaded kite given the position, velocity and rotation of k
RestoreListed(k) ==
    [KitePropertiesInit EXCEPT !.position = k.position,
                               !.velocity = k.velocity,
                               !.rotation = k.rotation]

\* a freshly loaded kite given all of the motion state of k
RestoreWhole(k) ==
    [RestoreListed(k) EXCEPT !.angularVelocity = k.angularVelocity,
                             !.smoothedAcceleration = k.smoothedAcceleration,
                             !.smoothedAngularAcceleration = k.smoothedAngularAcceleration]

\* position, velocity and rotation of a kite
Listed(k) == [position |-> k.position, velocity |-> k.velocity, rotation |-> k.rotation]

----------------------------------------------------------------------------
(* C17: what the controls wrote is what the next sub-step reads *)

\* the highest wind speed that updateWindVariation gives under the scale and
\* the variation of the wind state w
HighestSpeed(w) ==
    MathMax(Lit(1000),
            Mul(Mul(w.baseSpeed,
                    Add(Add(One, w.gustStrength), Mul(w.turbulence, Lit(5000)))),
                w.userWindScale))

\* C17: what a control mutator wrote before a frame's updatePhysics is what the
\* first sub-step after the write uses: the line lengths it reads are the ones
\* the length adjustments give, and the wind speed it reads is one that the
\* wind scale allows
C17_ControlsTakeEffect ==
    (obs.op = "animate" /\ obs.steps >= 1) =>
        /\ obs.usedTether.leftLineLength
              = updateEffectiveLineLengths(obs.usedTether).leftLineLength
        /\ obs.usedTether.rightLineLength
              = updateEffectiveLineLengths(obs.usedTether).rightLineLength
        /\ Le(obs.usedWind.currentSpeed, HighestSpeed(obs.usedWind))

----------------------------------------------------------------------------
(* C16: the order of the statements of a sub-step *)

\* the order that C16 names
StageOrder ==
    << "gravity", "aerodynamics", "tether", "stabilizing", "applyForce", "applyTorque",
       "groundCollision" >>

StageIndex(stage) == CHOOSE i \in 1..Len(StageOrder) : StageOrder[i] = stage

\* C16: the statements of a sub-step run in one order whatever the state and
\* the switches are: gravity, aerodynamic forces, tether force, stabilizing
\* force, the summed force applied, the torque applied, the ground check; the
\* ground check never runs before the force and the torque of the sub-step
\* have been applied.  The sub-step so ordered ends in the state stepPhysics gives.
C16_FixedOrder ==
    /\ \A i, j \in 1..Len(obs.ran) :
          i < j => StageIndex(obs.ran[i]) < StageIndex(obs.ran[j])
    /\ \A i \in 1..Len(obs.ran) :
          obs.ran[i] = "groundCollision" =>
             /\ \E j \in 1..(i - 1) : obs.ran[j] = "applyForce"
             /\ \E j \in 1..(i - 1) : obs.ran[j] = "applyTorque"
    /\ obs.pc = "done" =>
          /\ kiteProperties = stepPhysics(obs.start, config, windState, tetherConfig,
                                          FIXED_TIME_STEP)
          /\ \A stage \in {"tether", "stabilizing", "applyForce", "applyTorque"} :
                \E i \in 1..Len(obs.ran) : obs.ran[i] = stage

\* a sub-step with every switch on that ended with the ground check catching
\* the kite
C16_Witness ==
    /\ obs.pc = "done"
    /\ obs.ran = StageOrder
    /\ Lt(obs.start.velocity.y, Zero)
    /\ kiteProperties.position.y = groundBuffer

----------------------------------------------------------------------------
(* C19: termination of updatePhysics *)

\* C19: every call of updatePhysics returns: whatever deltaTime, timeScale and
\* accumulator it runs with, a call that has reached its loop leaves the loop
\* and returns, also when more sub-steps are owed than a call may run.
C19_Terminates == (obs.pc = "while") ~> (obs.pc = "idle")

\* a call that entered its loop with an infinite accumulator has returned
\* after maxSteps sub-steps with the accumulator drained
C19_Witness ==
    /\ obs.pc = "idle"
    /\ obs.calls > 0
    /\ obs.entered = PInf
    /\ obs.steps = maxSteps
    /\ accumulator = Zero

----------------------------------------------------------------------------
(* C21: the switches of config *)

\* the force that the switched-on categories of C21 add before the tether force
SwitchedForce ==
    LET gravity == IF config.enableGravity
                   THEN Vec(Zero, Neg(Mul(obs.start.mass, GRAVITY)), Zero) ELSE ZeroVec
        aeroForces == calculateAerodynamicForces(obs.start, windState)
        aero == IF ~config.enableWind THEN ZeroVec
                ELSE IF config.enableDrag THEN VAdd(aeroForces.lift, aeroForces.drag)
                ELSE aeroForces.lift
    IN VAdd(gravity, aero)

\* C21: a switch that is off takes its category out of the sub-step and
\* nothing else: without enableGravity no gravity is added, without enableWind
\* neither lift nor drag, without enableDrag no drag although enableWind is
\* on, and without enableCollisions the ground check does not run.
C21_SwitchesRemove ==
    /\ obs.pc = "tether" => obs.totalForce = SwitchedForce
    /\ ~config.enableCollisions =>
          \A i \in 1..Len(obs.ran) : obs.ran[i] # "groundCollision"

----------------------------------------------------------------------------
(* C22: normalize *)

\* the vector is finite and its length is below 0.0001
BelowThreshold(v) ==
    /\ VecFinite(v)
    /\ v.x.v * v.x.v + v.y.v * v.y.v + v.z.v * v.z.v < (Fine \div S) * (Fine \div S)

\* the vector is finite and its length is 1 to within half a percent
UnitLength(v) ==
    /\ VecFinite(v)
    /\ LET q == RoundDiv(v.x.v, 10) * RoundDiv(v.x.v, 10)
               + RoundDiv(v.y.v, 10) * RoundDiv(v.y.v, 10)
               + RoundDiv(v.z.v, 10) * RoundDiv(v.z.v, 10)
       IN Abs(q - S * S) * 100 <= S * S

\* C22: for every vector, normalize returns a vector without a NaN component:
\* the zero vector when the length of the argument is below 0.0001, and a
\* vector of length 1 otherwise.
C22_Normalize ==
    obs.op = "normalize" =>
       /\ ~VecIsNaN(obs.v)
       /\ BelowThreshold(obs.arg) => obs.v = ZeroVec
       /\ ~BelowThreshold(obs.arg) => UnitLength(obs.v)

----------------------------------------------------------------------------
(* C23: the lift curve *)

\* the stall threshold 1.3 * 0.26
StallAngle == Mul(Lit(2600), Lit(13000))

\* C23: the lift coefficient is 0 at angle of attack 0 and at pi/2, never
\* above 1.2 and about 1.2 near the optimal angle 0.26; above the stall
\* threshold and up to pi/2 it is never negative and does not rise as the
\* angle grows.
C23_LiftCurve ==
    /\ obs.angleOfAttack = Zero => obs.liftCoef = Zero
    /\ obs.clampedDot = Zero => Le(Neg(Lit(100)), obs.liftCoef) /\ Le(obs.liftCoef, Lit(100))
    /\ Le(obs.liftCoef, Lit(12000))
    /\ obs.clampedDot = Lit(9700) => Ge(obs.liftCoef, Lit(11900))
    /\ (Gt(obs.previous.angleOfAttack, StallAngle) /\ Ge(obs.clampedDot, Zero)) =>
          /\ Ge(obs.liftCoef, Zero)
          /\ Le(obs.liftCoef, obs.previous.liftCoef)

----------------------------------------------------------------------------
(* C24: the limits of the two velocities *)

\* C24: after every applyForce, applyTorque, resetKite and sub-step the speed
\* of the kite is at most 5 and its angular speed at most 2 (the squares at
\* most 25 and 4), whatever forces and torques were handed in and whether or
\* not the ground check or a reset acted.  The limits are compared with a
\* margin of one percent for the rounding of the scale factor max / magnitude.
C24_SpeedLimits ==
    /\ Le(MagSquared(kiteProperties.velocity), Lit(252500))
    /\ Le(MagSquared(kiteProperties.angularVelocity), Lit(40400))

\* an applyForce whose force alone would take the kite beyond 5 m/s has left
\* it at the limit
C24_Witness ==
    /\ obs.op = "applyForce"
    /\ obs.arg = VecN(0, 1000000, 0)
    /\ Ge(MagSquared(kiteProperties.velocity), Lit(249000))

----------------------------------------------------------------------------
(* C25: the two line lengths after updateTethers *)

\* C25: after updateTethers, for adjustments o and d in [-1, 1], the two line
\* lengths share out twice the base length 30 * (1 + 0.5 * o); d < 0 makes the
\* left line the shorter one, d > 0 the right line, and d = 0 leaves both at
\* the base length.
C25_LineLengths ==
    (/\ obs.op = "updateTethers"
     /\ isFinite(tetherConfig.overallLengthAdjustment)
     /\ isFinite(tetherConfig.differentialLengthAdjustment)) =>
       LET d == tetherConfig.differentialLengthAdjustment
           baseLength == Mul(Lit(300000), Add(One, Mul(Lit(5000), tetherConfig.overallLengthAdjustment)))
       IN /\ Near(Add(tetherConfig.leftLineLength, tetherConfig.rightLineLength),
                  Add(baseLength, baseLength))
          /\ Lt(d, Zero) => Lt(tetherConfig.leftLineLength, tetherConfig.rightLineLength)
          /\ Gt(d, Zero) => Lt(tetherConfig.rightLineLength, tetherConfig.leftLineLength)
          /\ d = Zero => /\ tetherConfig.leftLineLength = baseLength
                         /\ tetherConfig.rightLineLength = baseLength

----------------------------------------------------------------------------
(* C26: writes through the object that getKiteProperties returns *)

\* kiteProperties when the ground check of the sub-step began
AtGroundCheck ==
    stepPhysicsForces(obs.start, config, windState, tetherConfig, FIXED_TIME_STEP)

\* the ground check of the sub-step found `kite` below the buffer and wrote
\* to kite.velocity and kite.position
WroteThroughCopy ==
    /\ obs.pc = "done"
    /\ config.enableCollisions
    /\ Lt(KiteRef(AtGroundCheck).position.y, groundBuffer)

\* position and velocity as applyForce, the kite module's own function, left
\* them in that ground check
LeftByApplyForce ==
    applyForce(AtGroundCheck.k,
               Vec(Zero, Mul(Mul(AtGroundCheck.k.mass, GRAVITY), Lit(20000)), Zero)).k

\* C26: the object that getKiteProperties returns is a copy: what
\* checkGroundCollision writes to its position and velocity does not show in
\* getKitePosition and getKiteVelocity, which give what applyForce left.
C26_CopyIsolated ==
    WroteThroughCopy =>
       /\ getKitePosition(kiteProperties) = getKitePosition(LeftByApplyForce)
       /\ getKiteVelocity(kiteProperties) = getKiteVelocity(LeftByApplyForce)

----------------------------------------------------------------------------
(* Claims about the time left in the accumulator, checked under SpecLoop *)

\* the accumulator holds less than one fixed step and is not negative
LessThanAStep(acc) == Ge(acc, Zero) /\ Lt(acc, FIXED_TIME_STEP)

\* C27: after an updatePhysics call made while running, with deltaTime >= 0 and
\* timeScale >= 0 and an accumulator that held less than a step when the call
\* began, the accumulator is not negative and strictly less than one fixed step
C27_NoStepCarried ==
    ( /\ obs.pc = "idle" /\ obs.calls >= 1 /\ isRunning
      /\ Ge(obs.deltaTime, Zero) /\ Ge(config.timeScale, Zero)
      /\ LessThanAStep(obs.found) ) =>
        LessThanAStep(accumulator)

----------------------------------------------------------------------------
(* Claims about the simulated time, checked under Spec *)

\* the time of n sub-steps
StepsTime(n) == Num(n * FIXED_TIME_STEP.v)

\* the call stopped at the bound of sub-steps with more than a step banked
Overloaded(o) == o.steps >= maxSteps /\ Gt(o.banked, FIXED_TIME_STEP)

\* C28: a running updatePhysics call takes the time of its sub-steps off the
\* accumulator it found plus min(deltaTime, 0.1) * timeScale and leaves the
\* rest in the accumulator, so that over calls without a drain
\* sub-steps * fixed step + accumulator is the time that came in; the
\* accumulator differs from what the loop left only in a drain, where it is 0
\* (a time that is not a number counts as equal to itself)
C28_TimeConserved ==
    [][ (obs' # obs /\ isRunning) =>
            /\ Add(StepsTime(obs'.steps), obs'.banked) =
                   Add(accumulator, Mul(MathMin(obs'.deltaTime, maxDeltaTime), config.timeScale))
            /\ ~Overloaded(obs') => accumulator' = obs'.banked
            /\ Overloaded(obs') => accumulator' = Zero ]_vars

\* a second running call that found a rest banked, ran sub-steps and left a
\* rest again without a drain
C28_Witness ==
    /\ obs.op = "updatePhysics" /\ obs.ran
    /\ obs.frames = 2
    /\ Gt(obs.before, Zero)
    /\ obs.steps >= 1
    /\ ~Overloaded(obs)
    /\ Gt(accumulator, Zero)
    /\ isFinite(accumulator)

----------------------------------------------------------------------------
(* Claims about the recovery of the kite, checked under SpecKite *)

\* the call that o records ran resetKite at its end
ResetIn(o) ==
    \/ o.op = "applyForce" /\ applyForce(o.before, o.arg).reset
    \/ o.op = "applyTorque" /\ applyTorque(o.before, o.arg).reset

\* C29: after an applyForce or applyTorque call that reset the kite, a call of
\* applyForce or applyTorque with a finite argument leaves position, rotation
\* and the velocities finite and does not reset the kite again
C29_RecoveryEffective ==
    [][ ( /\ ResetIn(obs)
          /\ obs'.op \in {"applyForce", "applyTorque"}
          /\ VecFinite(obs'.arg) ) =>
            /\ ~ResetIn(obs')
            /\ PoseFinite(Pose(obs'.twice)) ]_vars

----------------------------------------------------------------------------
(* Claims about the integration in a sub-step, checked under SpecStages *)

\* the one integration of a sub-step: applyForce(totalForce * dt) on the kite
\* the sub-step began with
IntegratedOnce == applyForce(obs.start, VScale(obs.totalForce, FIXED_TIME_STEP))

\* C30: at the end of a sub-step whose applyForce did not reset the kite, the
\* smoothing accumulator is the one that a single pass of the filter gives,
\* and the kite is where a single advance by its velocity put it (but for the
\* height, which the ground check sets), whether the ground check fired or not
C30_AdvancedOnce ==
    (obs.pc = "done" /\ ~IntegratedOnce.reset) =>
        /\ kiteProperties.smoothedAcceleration = IntegratedOnce.k.smoothedAcceleration
        /\ kiteProperties.position.x = IntegratedOnce.k.position.x
        /\ kiteProperties.position.z = IntegratedOnce.k.position.z

============================================================================
